---- MODULE Spec2Model ----
(***************************************************************************)
(* Request admission (webapp/middleware/rate_limit.py) and outbound-URL    *)
(* safety (webapp/middleware/security.py) of dealscan-insight.             *)
(*                                                                         *)
(* Strings that the code trims, splits or lower-cases are sequences of     *)
(* tokens: a token is one character or an unbreakable run of characters    *)
(* holding no whitespace and no separator.                                 *)
(***************************************************************************)
EXTENDS Integers, Sequences, FiniteSets, TLC

VARIABLES
    now,              \* time.time() in whole seconds, shared by server and store
    storeUp,          \* the Redis server answers within the socket timeout
    redis_client,     \* per server process: self.redis_client is set
    counters,         \* Redis: key -> integer value of the rl:* keys that exist
    expiry,           \* Redis: key -> second at which the key expires
    violations,       \* Redis list rate_limit_violations, head first
    req,              \* per task: the request RateLimitMiddleware.dispatch is running
    issued,           \* history: <<dimension, value, window>> -> requests counted there
    sent,             \* history: <<ip, user, route, window>> -> batches the store applied
    arrivals,         \* history: requests that arrived since the initial state
    outages,          \* history: times the store became unreachable
    ALLOWED_DOMAINS,  \* security.py: the allow-list, a set of strings
    dns,              \* what the resolver answers for a host name, now
    call,             \* the call of the URL guard under way: its input and its result
    identity,         \* the last call of extract_client_ip: its input and its result
    status_reply,     \* what get_rate_limit_status returned, until the caller takes it
    table,            \* store.py: the committed rows of public_listings
    dbcall,           \* the call of store.py under way: its input and its outcome
    latest,           \* history: listing_url -> the listing of its last successful upsert
    earlier,          \* history: the call of is_safe that returned last
    asked,            \* history: the arguments of the status query that is returning
    account,          \* routers/auth.py: the row of the account in users
    utcnow,           \* datetime.now(timezone.utc), in minutes
    authcall,         \* the call of login that is returning: its input and its outcome
    streak            \* history: failed password attempts since the last successful login

rlVars == <<now, storeUp, redis_client, counters, expiry, violations, req,
            issued, sent, arrivals, outages>>

urlVars == <<ALLOWED_DOMAINS, dns, call>>

idVars == <<identity>>

stVars == <<status_reply>>

dbVars == <<table, dbcall, latest>>

histVars == <<earlier, asked>>

authVars == <<account, utcnow, authcall, streak>>

vars == <<rlVars, urlVars, idVars, stVars, dbVars, histVars, authVars>>

----------------------------------------------------------------------------
(* Bounds of the model *)

MaxTicks == 2          \* clock steps explored
MaxArrivals == 2       \* requests explored after the ones already served
MaxFailures == 1       \* store outages explored
MaxBatch == 2          \* listings in the longest batch
MaxAuthTicks == 5      \* steps of ten minutes of the clock of login
MaxAttempts == 6       \* wrong passwords explored on the account

(* Program constants *)

window_size == 60
default_limit == 100
LoginLimit == 5
UploadLimit == 10
OpportunitiesLimit == 50
VehiclesLimit == 50
PredictLimit == 20
ExpireBuffer == 10
KeepLast == 999

\* no reply of get_rate_limit_status is waiting for its caller
NoReply == [kind |-> "none"]

\* no call of store.py is under way
NoDbCall ==
    [op |-> "none", listings |-> <<>>, fault |-> 0, before |-> {}, result |-> "none",
     opened |-> FALSE]

\* the account before its first login: the defaults of the columns of User
NewUser ==
    [is_active |-> TRUE, totp_enabled |-> FALSE, failed_login_attempts |-> 0,
     locked_until |-> <<>>]

\* no call of login is returning
NoAuthCall ==
    [op |-> "none", known |-> FALSE, password |-> FALSE, totp_code |-> "none", at |-> 0,
     before |-> NewUser, status |-> 0, detail |-> "", tokens |-> FALSE]

\* the other parts of the program before their first call
NonAuthIdle ==
    /\ status_reply = NoReply
    /\ table = {}
    /\ dbcall = NoDbCall
    /\ latest = <<>>
    /\ earlier = [op |-> "none"]
    /\ asked = <<>>

OthersIdle ==
    /\ NonAuthIdle
    /\ account = NewUser
    /\ utcnow = 0
    /\ authcall = NoAuthCall
    /\ streak = 0

----------------------------------------------------------------------------
(* Python strings as token sequences *)

Whitespace == {" ", "\t"}

Max(S) == CHOOSE x \in S : \A y \in S : y <= x
Min(S) == CHOOSE x \in S : \A y \in S : x <= y

RECURSIVE lstrip(_)
lstrip(s) ==
    IF s = <<>> THEN s
    ELSE IF Head(s) \in Whitespace THEN lstrip(Tail(s)) ELSE s

RECURSIVE rstrip(_)
rstrip(s) ==
    IF s = <<>> THEN s
    ELSE IF s[Len(s)] \in Whitespace THEN rstrip(SubSeq(s, 1, Len(s) - 1)) ELSE s

\* str.strip()
strip(s) == rstrip(lstrip(s))

\* s.split(",")[0]: what precedes the first comma
SplitFirst(s) ==
    LET commas == {i \in 1..Len(s) : s[i] = ","}
    IN  IF commas = {} THEN s ELSE SubSeq(s, 1, Min(commas) - 1)

\* s.split(",")[-1]: what follows the last comma, the whole string when there is none
SplitLast(s) ==
    LET commas == {i \in 1..Len(s) : s[i] = ","}
    IN  IF commas = {} THEN s ELSE SubSeq(s, Max(commas) + 1, Len(s))

----------------------------------------------------------------------------
(* extract_client_ip.  A request's headers are a function from the names of *)
(* the headers it carries to their values; request.client is <<>> (None) or *)
(* <<host>>.                                                                *)

EdgeHeaders == <<"cf-connecting-ip", "true-client-ip", "x-real-ip">>

\* `if v := request.headers.get(header)`: the header is there and its value is not ""
HeaderTruthy(request, header) ==
    header \in DOMAIN request.headers /\ request.headers[header] # <<>>

extract_client_ip(request) ==
    LET hit == {i \in 1..Len(EdgeHeaders) : HeaderTruthy(request, EdgeHeaders[i])}
    IN  IF hit # {}
        THEN strip(request.headers[EdgeHeaders[Min(hit)]])
        ELSE IF HeaderTruthy(request, "x-forwarded-for")
        THEN strip(SplitLast(request.headers["x-forwarded-for"]))
        ELSE IF request.client # <<>> THEN request.client[1] ELSE <<"unknown">>

----------------------------------------------------------------------------
(* urllib.parse.urlparse on token strings.  A URL is a sequence of tokens:   *)
(* the separators ":", "//", "/", "?", "#", "@", "[", "]" and runs of other  *)
(* characters.                                                               *)

\* str.lower() of a token
Lower(tok) ==
    CASE tok = "HTTP" -> "http"
      [] tok = "GovDeals.com" -> "govdeals.com"
      [] tok = "Internal.Example" -> "internal.example"
      [] tok = "URL" -> "url"
      [] tok = "Link" -> "link"
      [] tok = "Callback" -> "callback"
      [] OTHER -> tok

LowerAll(str) == [i \in 1..Len(str) |-> Lower(str[i])]

Separators == {":", "//", "/", "?", "#", "@", "[", "]"}

\* a run of scheme characters (letters, digits, "+", "-", ".") that starts
\* with a letter
SchemeRun(tok) == tok \notin Separators /\ tok \notin {"80", "93.184.216.34"}

\* where str first holds a token of S, Len(str) + 1 when it holds none
Find(str, S) == Min({i \in 1..Len(str) : str[i] \in S} \cup {Len(str) + 1})

\* urlsplit: the scheme is what precedes the first ":", when that is one run
\* of scheme characters that starts with a letter
SchemeEnd(url) ==
    IF Len(url) >= 2 /\ url[2] = ":" /\ SchemeRun(url[1]) THEN 2 ELSE 0

\* the network location: what follows "//" up to the next "/", "?" or "#"
Netloc(url) ==
    LET rest == SubSeq(url, SchemeEnd(url) + 1, Len(url))
    IN  IF rest # <<>> /\ rest[1] = "//"
        THEN SubSeq(rest, 2, Find(rest, {"/", "?", "#"}) - 1)
        ELSE <<>>

\* urlsplit raises ValueError("Invalid IPv6 URL") on an unmatched bracket
ParseRaises(url) == ("[" \in {Netloc(url)[i] : i \in 1..Len(Netloc(url))})
                    # ("]" \in {Netloc(url)[i] : i \in 1..Len(Netloc(url))})

\* parsed.scheme
Scheme(url) == IF SchemeEnd(url) = 0 THEN <<>> ELSE <<Lower(url[1])>>

\* parsed.hostname: what follows the last "@" of the network location, up to
\* the first ":", lower-cased; <<>> stands for None
Hostname(url) ==
    LET n    == Netloc(url)
        ats  == {i \in 1..Len(n) : n[i] = "@"}
        info == IF ats = {} THEN n ELSE SubSeq(n, Max(ats) + 1, Len(n))
    IN  LowerAll(SubSeq(info, 1, Find(info, {":"}) - 1))

----------------------------------------------------------------------------
(* ipaddress: an address is its version and its parts, four octets or eight  *)
(* 16-bit groups; a network is an address and a prefix length                *)

RECURSIVE Pow2(_)
Pow2(n) == IF n = 0 THEN 1 ELSE 2 * Pow2(n - 1)

Width(version) == IF version = 4 THEN 8 ELSE 16

\* ip_obj in network: same version and same leading prefix-length bits
InNetwork(ip, net) ==
    /\ ip.version = net.version
    /\ \A i \in 1..Len(ip.parts) :
          LET w    == Width(ip.version)
              left == net.prefix - (i - 1) * w
              bits == IF left < 0 THEN 0 ELSE IF left > w THEN w ELSE left
          IN  ip.parts[i] \div Pow2(w - bits) = net.parts[i] \div Pow2(w - bits)

IPv4(a, b, c, d) == [version |-> 4, parts |-> <<a, b, c, d>>]
IPv6(a, h) == [version |-> 6, parts |-> <<a, 0, 0, 0, 0, 0, 0, h>>]
Network(ip, prefix) == [version |-> ip.version, parts |-> ip.parts, prefix |-> prefix]

PRIVATE_NETWORKS ==
    << Network(IPv4(10, 0, 0, 0), 8),
       Network(IPv4(172, 16, 0, 0), 12),
       Network(IPv4(192, 168, 0, 0), 16),
       Network(IPv4(127, 0, 0, 0), 8),
       Network(IPv6(0, 1), 128),
       Network(IPv6(64512, 0), 7),
       Network(IPv6(65152, 0), 10) >>

IsPrivate(ip) == \E i \in 1..Len(PRIVATE_NETWORKS) : InNetwork(ip, PRIVATE_NETWORKS[i])

----------------------------------------------------------------------------
(* The resolver.  An answer is the list of addresses of a host name, in the  *)
(* resolver's order, or a failure.                                           *)

Answer(addrs) == [kind |-> "ok", addrs |-> addrs]
Failure(kind) == [kind |-> kind, addrs |-> <<>>]

\* socket.gethostbyname: the first IPv4 address of the answer; gaierror when
\* the name has none
gethostbyname(answer) ==
    LET v4 == {i \in 1..Len(answer.addrs) : answer.addrs[i].version = 4}
    IN  IF answer.kind # "ok" THEN answer
        ELSE IF v4 = {} THEN Failure("gaierror")
        ELSE Answer(<<answer.addrs[Min(v4)]>>)

\* a resolver that keeps the answer it gave when the process started
ResolvePinned(resolver, hostname) ==
    IF hostname \in DOMAIN resolver THEN Answer(<<IPv4(93, 184, 216, 34)>>)
    ELSE Failure("gaierror")

\* the answer of the resolver at the moment of the call
Resolve(resolver, hostname) ==
    IF hostname \in DOMAIN resolver THEN resolver[hostname] ELSE Failure("gaierror")

----------------------------------------------------------------------------
(* SecurityMiddleware._is_safe_url *)

DEFAULT_DOMAINS ==
    { <<"govdeals.com">>, <<"www.govdeals.com">>, <<"publicsurplus.com">>,
      <<"www.publicsurplus.com">>, <<"municibid.com">>, <<"www.municibid.com">> }

\* line 106
SchemeAllowed(scheme) == scheme \in {<<"http">>, <<"https">>}

\* the allow-list left out
HostAllowedAny(hostname, allowed) == hostname # <<>>

\* line 111
HostAllowed(hostname, allowed) == hostname # <<>> /\ hostname \in allowed

\* lines 125-126 and 130-131: the lookup raised
OnLookupError == FALSE

\* lines 115-128: resolve and test the address
AddressSafe(answer) ==
    LET got == gethostbyname(answer)
    IN  IF got.kind # "ok" THEN OnLookupError
        ELSE ~IsPrivate(got.addrs[1])

_is_safe_url(url, allowed, resolver) ==
    IF ParseRaises(url) THEN FALSE
    ELSE IF ~SchemeAllowed(Scheme(url)) THEN FALSE
    ELSE IF ~HostAllowed(Hostname(url), allowed) THEN FALSE
    ELSE AddressSafe(Resolve(resolver, Hostname(url)))

\* add_allowed_domain
AddedDomain(domain) == LowerAll(domain)

----------------------------------------------------------------------------
(* SecurityMiddleware.dispatch and _has_ssrf_risk.  A request carries its    *)
(* Content-Length and Content-Type headers (<<>> when absent), its query as  *)
(* the list of its pairs, and its body: nothing, bytes that are no JSON, a   *)
(* JSON array, a JSON object given by its members, or a read that fails.     *)

URL_KEYS == {"url", "link", "redirect", "callback"}

max_request_size == 10 * 1024 * 1024

\* int(content_length); -1 stands for ValueError
ParseInt(tok) ==
    CASE tok = "512" -> 512
      [] tok = "10485760" -> 10485760
      [] tok = "10485761" -> 10485761
      [] OTHER -> -1

\* dict(pairs).items(): one pair per key, in the order the keys first come,
\* with the value that comes last (starlette's query_params.items(), and the
\* members of a JSON object after json.loads)
DictItems(pairs) ==
    LET firsts == {i \in 1..Len(pairs) : \A j \in 1..(i - 1) : pairs[j][1] # pairs[i][1]}
        last(k) == Max({i \in 1..Len(pairs) : pairs[i][1] = k})
    IN  {<<pairs[i][1], pairs[last(pairs[i][1])][2]>> : i \in firsts}

\* every pair, the way query_params.multi_items() lists them
AllItems(pairs) == {pairs[i] : i \in 1..Len(pairs)}

\* line 78
QueryItems(request) == DictItems(request.query)

\* a test of the media type that accepts parameters
IsJsonType(content_type) ==
    content_type \in {<<"application/json">>, <<"application/json; charset=utf-8">>}

\* line 84
IsJson(content_type) == content_type = <<"application/json">>

\* lines 78-81: a query parameter with a URL name whose value is not safe
QueryRisk(request, allowed, resolver) ==
    \E item \in QueryItems(request) :
        Lower(item[1]) \in URL_KEYS /\ ~_is_safe_url(item[2], allowed, resolver)

\* lines 90-94: a string member of the object with a URL name whose value is not safe
BodyRisk(request, allowed, resolver) ==
    /\ request.body.kind = "object"
    /\ \E item \in DictItems(request.body.members) :
          /\ item[2].str
          /\ Lower(item[1]) \in URL_KEYS
          /\ ~_is_safe_url(item[2].value, allowed, resolver)

\* "risk", "clear", or "raised" when request.body() raises: the except clause
\* of line 95 names json, which the function has not bound yet
_has_ssrf_risk(request, allowed, resolver) ==
    IF QueryRisk(request, allowed, resolver) THEN "risk"
    ELSE IF ~IsJson(request.content_type) THEN "clear"
    ELSE IF request.body.kind = "disconnect" THEN "raised"
    ELSE IF BodyRisk(request, allowed, resolver) THEN "risk"
    ELSE "clear"

\* the outcome of dispatch: the status of the response, whether call_next ran,
\* whether the security headers were set; status 500 stands for an exception
\* that leaves dispatch
Outcome(status, reached, headers) ==
    [status |-> status, reached |-> reached, headers |-> headers]

SecurityDispatch(request, allowed, resolver) ==
    LET cl == request.content_length
    IN  IF cl # <<>> /\ ParseInt(cl[1]) < 0 THEN Outcome(500, FALSE, FALSE)
        ELSE IF cl # <<>> /\ ParseInt(cl[1]) > max_request_size
        THEN Outcome(413, FALSE, FALSE)
        ELSE CASE _has_ssrf_risk(request, allowed, resolver) = "risk" ->
                      Outcome(400, FALSE, FALSE)
               [] _has_ssrf_risk(request, allowed, resolver) = "raised" ->
                      Outcome(500, FALSE, FALSE)
               [] OTHER -> Outcome(200, TRUE, TRUE)

----------------------------------------------------------------------------
(* Responses.  A response is its status, its JSON body and its headers, a    *)
(* set of <<name, value>> pairs.                                             *)

Response(status, body, headers) ==
    [status |-> status, body |-> body, headers |-> headers]

NoResponse == Response(0, <<>>, {})

SECURITY_HEADERS ==
    { <<"X-Content-Type-Options", "nosniff">>,
      <<"X-Frame-Options", "DENY">>,
      <<"X-XSS-Protection", "1; mode=block">>,
      <<"Referrer-Policy", "strict-origin-when-cross-origin">>,
      <<"Content-Security-Policy", "default-src 'self'; img-src 'self' data: https:; connect-src 'self'; script-src 'self' 'unsafe-inline'; style-src 'self' 'unsafe-inline'">>,
      <<"Strict-Transport-Security", "max-age=31536000; includeSubDomains; preload">> }

\* response.headers[header] = value for every security header
WithSecurityHeaders(headers) ==
    {h \in headers : \A sh \in SECURITY_HEADERS : sh[1] # h[1]} \cup SECURITY_HEADERS

\* security.py lines 54-57
TooLargeResponse == Response(413, <<"error", "Request too large">>, {})

\* security.py lines 61-64
InvalidUrlResponse == Response(400, <<"error", "Invalid URL parameter">>, {})

\* ErrorHandlerMiddleware._handle_error for an exception of no special type
InternalErrorResponse == Response(500, <<"error", "Internal server error">>, {})

\* what the application handler returns
HandlerResponse == Response(200, <<"status", "ok">>, {})

\* the step of _is_safe_url at which a URL is refused
FailingStep(url, allowed, resolver) ==
    IF ParseRaises(url) THEN "parse"
    ELSE IF ~SchemeAllowed(Scheme(url)) THEN "scheme"
    ELSE IF ~HostAllowed(Hostname(url), allowed) THEN "allow-list"
    ELSE IF gethostbyname(Resolve(resolver, Hostname(url))).kind # "ok" THEN "resolution"
    ELSE IF ~AddressSafe(Resolve(resolver, Hostname(url))) THEN "private"
    ELSE "none"

\* The chain below RateLimitMiddleware (main.py lines 55-59: the middleware
\* added last is outermost): ErrorHandlerMiddleware around SecurityMiddleware
\* around the handler.  payload is the request as SecurityMiddleware reads it
\* and what the handler does with it, "ok" or "raises"
InnerChain(payload, allowed, resolver) ==
    LET out == SecurityDispatch(payload.request, allowed, resolver)
    IN  CASE out.status = 413 -> TooLargeResponse
          [] out.status = 400 -> InvalidUrlResponse
          [] out.status = 500 -> InternalErrorResponse
          [] OTHER -> IF payload.handler = "raises" THEN InternalErrorResponse
                      ELSE [HandlerResponse EXCEPT
                               !.headers = WithSecurityHeaders(HandlerResponse.headers)]

----------------------------------------------------------------------------
(* The inputs explored by extract_client_ip *)

HeaderNames == {"cf-connecting-ip", "true-client-ip", "x-real-ip", "x-forwarded-for"}

HeaderValues ==
    { <<>>, <<" ">>, <<" ", "198.51.100.9", "\t">>,
      <<"203.0.113.7", ",", " ", "192.0.2.44">>, <<"192.0.2.44">>, <<"192.0.2.44", ",">> }

Peers == {<<>>, << <<"203.0.113.7">> >>}

NoIdentity == [request |-> [headers |-> <<>>, client |-> <<>>], ip |-> <<>>, called |-> FALSE]

\* the requests handed to extract_client_ip
IdentityRequests ==
    UNION { [headers : [names -> HeaderValues], client : Peers] :
              names \in SUBSET HeaderNames }

\* extract_client_ip(request) is called and returns
Extract ==
    /\ ~identity.called
    /\ identity' = [identity EXCEPT !.ip = extract_client_ip(identity.request),
                                    !.called = TRUE]
    /\ UNCHANGED <<rlVars, urlVars, stVars, dbVars, histVars, authVars>>

----------------------------------------------------------------------------
(* The inputs explored by the URL guard *)

Public4 == IPv4(93, 184, 216, 34)
Loopback4 == IPv4(127, 0, 0, 1)
Private10 == IPv4(10, 0, 0, 5)
Private172 == IPv4(172, 31, 255, 254)
Public172 == IPv4(172, 32, 0, 1)
Private192 == IPv4(192, 168, 1, 1)
UniqueLocal6 == IPv6(64768, 1)
LinkLocal6 == IPv6(65152, 1)
Public6 == IPv6(9734, 1)

Answers ==
    { Answer(<<Public4>>), Answer(<<Loopback4>>), Answer(<<Private10>>),
      Answer(<<Private172>>), Answer(<<Public172>>), Answer(<<Private192>>),
      Answer(<<Public4, Private10>>), Answer(<<Private10, Public4>>),
      Answer(<<UniqueLocal6>>), Answer(<<Public6, Public4>>),
      Answer(<<LinkLocal6, Public4>>),
      Failure("gaierror"), Failure("timeout") }

InternalAnswers ==
    { Answer(<<Public4>>), Answer(<<Loopback4>>), Failure("gaierror") }

AnswersFor(hostname) ==
    IF hostname = <<"govdeals.com">> THEN Answers ELSE InternalAnswers

ResolvedHosts == {<<"govdeals.com">>, <<"internal.example">>}

\* the domains an administrator may add
AddableDomains == {<<"Internal.Example">>}

Urls ==
    { scheme \o slashes \o userinfo \o host \o port \o tail :
        scheme \in {<<>>, <<"http", ":">>, <<"https", ":">>, <<"HTTP", ":">>,
                    <<"file", ":">>, <<"ftp", ":">>},
        slashes \in {<<>>, <<"//">>},
        userinfo \in {<<>>, <<"govdeals.com", "@">>},
        host \in {<<>>, <<"govdeals.com">>, <<"GovDeals.com">>, <<"evil.example">>,
                  <<"internal.example">>, <<"[">>},
        port \in {<<>>, <<":", "80">>},
        tail \in {<<>>, <<"/", "passwd">>, <<"#", "@", "govdeals.com">>} }

SafeUrl == <<"https", ":", "//", "govdeals.com", "/", "passwd">>
EvilUrl == <<"http", ":", "//", "evil.example", "/", "passwd">>
InternalUrl == <<"http", ":", "//", "internal.example">>
FileUrl == <<"file", ":", "//", "/", "passwd">>

Queries ==
    {<<>>} \cup
    { << <<k, v>> >> : k \in {"url", "URL", "q", "Callback"},
                      v \in {SafeUrl, EvilUrl, InternalUrl, FileUrl} } \cup
    { << <<k1, v1>>, <<k2, v2>> >> : k1 \in {"url", "redirect"}, k2 \in {"url", "redirect"},
                                    v1 \in {SafeUrl, EvilUrl}, v2 \in {SafeUrl, EvilUrl} }

Str(url) == [str |-> TRUE, value |-> url]
Nested(url) == [str |-> FALSE, value |-> url]
Body(kind, members) == [kind |-> kind, members |-> members]

Bodies ==
    { Body("empty", <<>>), Body("invalid", <<>>), Body("disconnect", <<>>),
      Body("array", <<>>),
      Body("object", << <<"Link", Str(EvilUrl)>> >>),
      Body("object", << <<"link", Str(SafeUrl)>> >>),
      Body("object", << <<"url", Nested(EvilUrl)>> >>),
      Body("object", << <<"note", Str(EvilUrl)>> >>),
      Body("object", << <<"callback", Str(InternalUrl)>>, <<"q", Str(SafeUrl)>> >>) }

ContentTypes ==
    {<<>>, <<"application/json">>, <<"application/json; charset=utf-8">>, <<"text/plain">>}

ContentLengths == {<<>>, <<"512">>, <<"10485761">>, <<"abc">>}

Requests ==
    [content_length : ContentLengths, content_type : ContentTypes,
     query : Queries, body : Bodies]

NoRequest ==
    [content_length |-> <<>>, content_type |-> <<>>, query |-> <<>>,
     body |-> Body("empty", <<>>)]

Payload(request, handler) == [request |-> request, handler |-> handler]

\* a request with nothing for SecurityMiddleware to refuse, served by the handler
CleanPayload == Payload(NoRequest, "ok")

NoCall ==
    [op |-> "none", url |-> <<>>, safe |-> FALSE, request |-> NoRequest,
     outcome |-> Outcome(0, FALSE, FALSE)]

\* the guard before any call: the allow-list as the module defines it
UrlIdle ==
    /\ ALLOWED_DOMAINS = DEFAULT_DOMAINS
    /\ dns = [h \in ResolvedHosts |-> Answer(<<Public4>>)]
    /\ call = NoCall
    /\ identity = NoIdentity
    /\ OthersIdle

\* is_safe(url), for any URL
Validate ==
    /\ call = NoCall
    /\ \E url \in Urls :
          call' = [NoCall EXCEPT !.op = "is_safe", !.url = url,
                                 !.safe = _is_safe_url(url, ALLOWED_DOMAINS, dns)]
    /\ UNCHANGED <<ALLOWED_DOMAINS, dns, rlVars, idVars, stVars, dbVars, histVars, authVars>>

\* SecurityMiddleware.dispatch, for any request
Dispatch ==
    /\ call = NoCall
    /\ \E request \in Requests :
          call' = [NoCall EXCEPT !.op = "dispatch", !.request = request,
                                 !.outcome = SecurityDispatch(request, ALLOWED_DOMAINS, dns)]
    /\ UNCHANGED <<ALLOWED_DOMAINS, dns, rlVars, idVars, stVars, dbVars, histVars, authVars>>

\* the call returns its result to the caller
Return ==
    /\ call # NoCall
    /\ call' = NoCall
    /\ UNCHANGED <<ALLOWED_DOMAINS, dns, rlVars, idVars, stVars, dbVars, histVars, authVars>>

\* add_allowed_domain(domain)
add_allowed_domain(domain) ==
    /\ AddedDomain(domain) \notin ALLOWED_DOMAINS
    /\ call = NoCall
    /\ ALLOWED_DOMAINS' = ALLOWED_DOMAINS \cup {AddedDomain(domain)}
    /\ UNCHANGED <<dns, call, rlVars, idVars, stVars, dbVars, histVars, authVars>>

\* the records of a host name change, between two calls
Rebind(hostname, answer) ==
    /\ dns[hostname] # answer
    /\ call = NoCall
    /\ dns' = [dns EXCEPT ![hostname] = answer]
    /\ UNCHANGED <<ALLOWED_DOMAINS, call, rlVars, idVars, stVars, dbVars, histVars, authVars>>

----------------------------------------------------------------------------
(* The counter store: Redis INCR, EXPIRE, LPUSH, LTRIM and key expiry *)

\* SET key 1 in place of INCR
INCRReset(cs, key) == (key :> 1) @@ cs

\* INCR key: a missing key counts from 0; the reply is the new value
INCR(cs, key) ==
    IF key \in DOMAIN cs THEN [cs EXCEPT ![key] = @ + 1] ELSE cs @@ (key :> 1)

\* EXPIRE key seconds, at second t
EXPIRE(ex, key, seconds, t) ==
    IF key \in DOMAIN ex THEN [ex EXCEPT ![key] = t + seconds] ELSE ex @@ (key :> t + seconds)

\* pipe.incr(key); pipe.expire(key, window_size + 10) for every key, run by the
\* store as one MULTI/EXEC at second t; results holds one reply per command
RECURSIVE PipelineExecute(_, _, _, _)
PipelineExecute(cs, ex, keys, t) ==
    IF keys = <<>> THEN [counters |-> cs, expiry |-> ex, results |-> <<>>]
    ELSE LET cs1  == INCR(cs, Head(keys))
             ex1  == EXPIRE(ex, Head(keys), window_size + ExpireBuffer, t)
             rest == PipelineExecute(cs1, ex1, Tail(keys), t)
         IN  [rest EXCEPT !.results = <<cs1[Head(keys)], 1>> \o @]

\* the keys that are still alive at second t
Alive(ex, t) == {k \in DOMAIN ex : ex[k] > t}

Restrict(f, S) == [k \in S |-> f[k]]

\* LTRIM list 0 999
LTRIM(list) == SubSeq(list, 1, Min({Len(list), KeepLast + 1}))

----------------------------------------------------------------------------
(* RateLimitMiddleware *)

route_limits ==
    ( "/auth/login" :> LoginLimit ) @@ ( "/upload" :> UploadLimit ) @@
    ( "/opportunities" :> OpportunitiesLimit ) @@ ( "/vehicles" :> VehiclesLimit ) @@
    ( "/ml/predict" :> PredictLimit )

\* self.route_limits.get(route, self.default_limit)
LimitOf(route) == IF route \in DOMAIN route_limits THEN route_limits[route] ELSE default_limit

\* current_time - (current_time % self.window_size)
WindowStart(t) == t - (t % window_size)

\* `if user_id:` - None and 0 are falsy.  user_id is <<>> (None) or <<id>>
UserTruthy(user_id) == user_id # <<>> /\ user_id[1] # 0

\* a key that leaves the window out
KeyNoWindow(dimension, value, window_start) == <<"rl:", dimension, ":">> \o value

\* f"rl:{dimension}:{value}:{window_start}"
Key(dimension, value, window_start) ==
    <<"rl:", dimension, ":">> \o value \o <<":", ToString(window_start)>>

\* the dimensions a request is counted in, in the order of lines 89-95
Dimensions(ip, user_id, route) ==
    << <<"ip", ip>>, <<"route", <<route>>>> >> \o
    (IF UserTruthy(user_id) THEN << <<"user", <<ToString(user_id[1])>>>> >> ELSE <<>>)

RateKeys(ip, user_id, route, window_start) ==
    LET d == Dimensions(ip, user_id, route)
    IN  [i \in 1..Len(d) |-> Key(d[i][1], d[i][2], window_start)]

\* for i in range(0, len(results), 2): the positions of the loop, 1-based
CheckedPositions(results) == {i \in 1..Len(results) : i % 2 = 1}

\* the off-by-one comparison `count >= limit`
ExceedingFromLimit(results, limit) ==
    {i \in CheckedPositions(results) : results[i] >= limit}

\* a comparison that holds for the first count above the limit only
ExceedingOnce(results, limit) ==
    {i \in CheckedPositions(results) : results[i] = limit + 1}

\* the loop of lines 108-113: the positions whose count exceeds the limit
Exceeding(results, limit) == {i \in CheckedPositions(results) : results[i] > limit}

----------------------------------------------------------------------------
(* The requests explored *)

AddrA == "203.0.113.7"
AddrB == "198.51.100.9"

\* two concurrent requests, each in a server process of its own
Tasks == {1, 2}
ProcOf(t) == t
Procs == {ProcOf(t) : t \in Tasks}

Direct == [headers |-> <<>>, client |-> << <<AddrA>> >>]
Forwarded ==
    [headers |-> ("x-forwarded-for" :> <<"10.0.0.9", ",", " ", AddrA>>),
     client |-> << <<"172.18.0.2">> >>]
Edge ==
    [headers |-> ("cf-connecting-ip" :> <<AddrB, " ">>) @@ ("x-forwarded-for" :> <<AddrA>>),
     client |-> << <<"172.18.0.2">> >>]

\* <<headers and peer, request.state.user.id, request.url.path>>: one client
\* on a route with a policy of its own, the same client behind a proxy and
\* signed in on a route under the default limit, another client on the first route
RLRequests ==
    { <<Direct, <<>>, "/auth/login">>,
      <<Forwarded, <<7>>, "/health">>,
      <<Edge, <<7>>, "/auth/login">> }

Idle ==
    [pc |-> "idle", ip |-> <<>>, user |-> <<>>, route |-> "", ws |-> 0, limit |-> 0,
     keys |-> <<>>, results |-> <<>>, status |-> 0, retry_after |-> 0,
     error |-> "none", printed |-> FALSE, seq |-> 0, count |-> 0, waited |-> FALSE,
     payload |-> CleanPayload, response |-> NoResponse]

\* return await call_next(request): status 200 records that the limiter let the
\* request through; the response is the one of the chain below
Passed(r) ==
    [r EXCEPT !.pc = "done", !.status = 200,
              !.response = InnerChain(r.payload, ALLOWED_DOMAINS, dns)]

\* a 429 whose message tells the count that exceeded
RejectedWithCount(r) ==
    [r EXCEPT !.pc = "done", !.status = 429, !.retry_after = window_size,
              !.response = Response(429,
                  <<"error", "Rate limit exceeded",
                    "message", ToString(r.count),
                    "retry_after", ToString(window_size)>>,
                  {<<"Retry-After", ToString(window_size)>>})]

\* the JSONResponse of lines 68-76
Rejected(r) ==
    [r EXCEPT !.pc = "done", !.status = 429, !.retry_after = window_size,
              !.response = Response(429,
                  <<"error", "Rate limit exceeded",
                    "message", "Too many requests. Please try again later.",
                    "retry_after", ToString(window_size)>>,
                  {<<"Retry-After", ToString(window_size)>>})]

\* lines 57-59: the ping raised
OnPingError(r) == Passed(r)

\* the batch's exception turned into a rejection
OnBatchErrorReject(r) == Rejected([r EXCEPT !.printed = TRUE])

\* lines 117-120 then 78: the batch raised; print, return False, call_next
OnBatchError(r) == Passed([r EXCEPT !.printed = TRUE])

\* a logging failure that lets the request through
OnLogErrorAllow(r) == Passed([r EXCEPT !.error = "log"])

\* lines 142-143, 113 and 68-76: the exception of the log is dropped, True is
\* returned, the request is answered 429
OnLogError(r) == Rejected([r EXCEPT !.error = "log"])

Bump(f, k) == IF k \in DOMAIN f THEN [f EXCEPT ![k] = @ + 1] ELSE f @@ (k :> 1)

RECURSIVE BumpAll(_, _)
BumpAll(f, ks) == IF ks = <<>> THEN f ELSE BumpAll(Bump(f, Head(ks)), Tail(ks))

Count(f, k) == IF k \in DOMAIN f THEN f[k] ELSE 0

\* the dimension whose count stands at position i of the batch's reply
DimensionAt(r, i) == Dimensions(r.ip, r.user, r.route)[(i + 1) \div 2][1]

\* what a request was: its client, user, route and window
Identity(r) == <<r.ip, r.user, r.route, r.ws>>

\* the counters a request is counted in
CountedIn(r) ==
    LET d == Dimensions(r.ip, r.user, r.route)
    IN  [i \in 1..Len(d) |-> <<d[i][1], d[i][2], r.ws>>]

\* A finished request is answered before anything else happens: writing the
\* response is local to the task and touches no shared state
NoResponsePending == \A t \in Tasks : req[t].pc # "done"

InFlight(t) == req[t].pc \in {"exec", "lpush", "ltrim"}

----------------------------------------------------------------------------
(* Initial states.  ServedAfter(denials, n): a fresh start (denials = 0,      *)
(* n = 0), or the state process 1 reaches from it by serving one client on   *)
(* /auth/login, the store answering: when denials > 0, LoginLimit + denials  *)
(* requests at second 30, the last `denials` of them rejected and logged;    *)
(* then, the clock at second 60, n requests at second 60, all allowed.       *)
(* ServedRL(before, n): one denial at second 30, or none.                    *)

ServedAfter(denials, n) ==
    LET before == denials > 0
        r0 == [Idle EXCEPT !.ip = <<AddrA>>, !.route = "/auth/login", !.ws = 0,
                           !.limit = LoginLimit, !.count = LoginLimit + denials]
        r1 == [r0 EXCEPT !.ws = window_size]
        k0 == RateKeys(r0.ip, r0.user, r0.route, r0.ws)
        k1 == RateKeys(r1.ip, r1.user, r1.route, r1.ws)
        c0 == CountedIn(r0)
        c1 == CountedIn(r1)
        I  == 1..Len(k0)
        empty == <<>>
        at0(f, v) == IF before THEN f @@ [k \in {k0[i] : i \in I} |-> v] ELSE f
        at1(f, v) == IF n > 0 THEN f @@ [k \in {k1[i] : i \in I} |-> v] ELSE f
        g0(f, v) == IF before THEN f @@ [k \in {c0[i] : i \in I} |-> v] ELSE f
        g1(f, v) == IF n > 0 THEN f @@ [k \in {c1[i] : i \in I} |-> v] ELSE f
    IN  /\ now = window_size
        /\ storeUp = TRUE
        /\ redis_client = [p \in Procs |-> p = 1 /\ (before \/ n > 0)]
        /\ counters = at1(at0(empty, LoginLimit + denials), n)
        /\ expiry = at1(at0(empty, window_size \div 2 + window_size + ExpireBuffer),
                        window_size + window_size + ExpireBuffer)
        /\ violations = [k \in 1..denials |->
                            [event |-> "rate_limit_exceeded", ip |-> r0.ip,
                             user_id |-> r0.user, route |-> r0.route,
                             count |-> r0.count + 1 - k, limit |-> r0.limit,
                             timestamp |-> window_size \div 2]]
        /\ req = [t \in Tasks |-> Idle]
        /\ issued = g1(g0(empty, LoginLimit + denials), n)
        /\ sent = (IF before THEN Identity(r0) :> LoginLimit + denials ELSE empty) @@
                  (IF n > 0 THEN Identity(r1) :> n ELSE empty)
        /\ arrivals = 0
        /\ outages = 0

ServedRL(before, n) == ServedAfter(IF before THEN 1 ELSE 0, n)

Served(before, n) == ServedRL(before, n) /\ UrlIdle

RLInit == \E before \in BOOLEAN, n \in 0..LoginLimit : Served(before, n)

----------------------------------------------------------------------------
(* RateLimitMiddleware.dispatch, one action per await *)

\* dispatch, lines 46-95: connect and ping on first use, then identify the
\* request, read the clock and build its keys
Arrive(t, shape, user_id, route, payload) ==
    /\ NoResponsePending
    /\ req[t].pc = "idle"
    /\ arrivals < MaxArrivals
    /\ arrivals' = arrivals + 1
    /\ redis_client' = [redis_client EXCEPT ![ProcOf(t)] = TRUE]
    /\ LET ip == extract_client_ip(shape)
           ws == WindowStart(now)
           r  == [Idle EXCEPT !.ip = ip, !.user = user_id, !.route = route,
                              !.payload = payload]
           r1 == [r EXCEPT !.pc = "exec", !.ws = ws, !.limit = LimitOf(route),
                           !.keys = RateKeys(ip, user_id, route, ws)]
       IN  IF ~redis_client[ProcOf(t)] /\ ~storeUp
           THEN /\ req' = [req EXCEPT ![t] = OnPingError([r EXCEPT !.error = "ping"])]
                /\ UNCHANGED issued
           ELSE /\ req' = [req EXCEPT ![t] = r1]
                /\ issued' = BumpAll(issued, CountedIn(r1))
    /\ UNCHANGED <<now, storeUp, counters, expiry, violations, sent, outages, urlVars, idVars, stVars, dbVars, histVars, authVars>>

\* lines 99-115 with the store answering: the batch is applied, then the counts
\* at the even positions of the reply are compared with the limit
Execute(t) ==
    /\ NoResponsePending
    /\ req[t].pc = "exec"
    /\ storeUp
    /\ LET r    == req[t]
           out  == PipelineExecute(counters, expiry, r.keys, now)
           over == Exceeding(out.results, r.limit)
           r1   == [r EXCEPT !.results = out.results, !.waited = FALSE,
                             !.seq = Count(sent, Identity(r)) + 1]
       IN  /\ counters' = out.counters
           /\ expiry' = out.expiry
           /\ sent' = Bump(sent, Identity(r))
           /\ req' = [req EXCEPT ![t] =
                        IF over = {} THEN Passed(r1)
                        ELSE [r1 EXCEPT !.pc = "lpush", !.count = out.results[Min(over)]]]
    /\ UNCHANGED <<now, storeUp, redis_client, violations, issued, arrivals, outages, urlVars, idVars, stVars, dbVars, histVars, authVars>>

\* lines 117-120: the store does not answer in time.  The batch was lost, or the
\* store applied it and the reply was lost
ExecuteFail(t, applied) ==
    /\ NoResponsePending
    /\ req[t].pc = "exec"
    /\ ~storeUp
    /\ LET r   == req[t]
           out == PipelineExecute(counters, expiry, r.keys, now)
       IN  /\ counters' = IF applied THEN out.counters ELSE counters
           /\ expiry' = IF applied THEN out.expiry ELSE expiry
           /\ sent' = IF applied THEN Bump(sent, Identity(r)) ELSE sent
           /\ req' = [req EXCEPT ![t] = OnBatchError([r EXCEPT !.error = "batch"])]
    /\ UNCHANGED <<now, storeUp, redis_client, violations, issued, arrivals, outages, urlVars, idVars, stVars, dbVars, histVars, authVars>>

\* json.dumps(log_data)
LogData(r, t) ==
    [event |-> "rate_limit_exceeded", ip |-> r.ip, user_id |-> r.user, route |-> r.route,
     count |-> r.count, limit |-> r.limit, timestamp |-> t]

\* _log_rate_limit_hit, line 136
Lpush(t) ==
    /\ NoResponsePending
    /\ req[t].pc = "lpush"
    /\ storeUp
    /\ violations' = <<LogData(req[t], now)>> \o violations
    /\ req' = [req EXCEPT ![t].pc = "ltrim", ![t].waited = FALSE]
    /\ UNCHANGED <<now, storeUp, redis_client, counters, expiry, issued, sent,
                   arrivals, outages, urlVars, idVars, stVars, dbVars, histVars, authVars>>

\* _log_rate_limit_hit, line 140, then the response of lines 68-76
Ltrim(t) ==
    /\ NoResponsePending
    /\ req[t].pc = "ltrim"
    /\ storeUp
    /\ violations' = LTRIM(violations)
    /\ req' = [req EXCEPT ![t] = Rejected(req[t])]
    /\ UNCHANGED <<now, storeUp, redis_client, counters, expiry, issued, sent,
                   arrivals, outages, urlVars, idVars, stVars, dbVars, histVars, authVars>>

\* _log_rate_limit_hit, lines 142-143: either call raises, the exception is dropped
LogFail(t) ==
    /\ NoResponsePending
    /\ req[t].pc \in {"lpush", "ltrim"}
    /\ ~storeUp
    /\ req' = [req EXCEPT ![t] = OnLogError(req[t])]
    /\ UNCHANGED <<now, storeUp, redis_client, counters, expiry, violations, issued, sent,
                   arrivals, outages, urlVars, idVars, stVars, dbVars, histVars, authVars>>

\* the response leaves the middleware; the task is free for the next request
Respond(t) ==
    /\ req[t].pc = "done"
    /\ req' = [req EXCEPT ![t] = Idle]
    /\ UNCHANGED <<now, storeUp, redis_client, counters, expiry, violations, issued, sent,
                   arrivals, outages, urlVars, idVars, stVars, dbVars, histVars, authVars>>

\* The clock advances by half a window and the store drops the keys that
\* expired.  socket_timeout=1.0 (line 53): no call to the store is left
\* waiting across two steps of the clock
Tick ==
    /\ NoResponsePending
    /\ now < window_size + MaxTicks * (window_size \div 2)
    /\ \A t \in Tasks : ~req[t].waited
    /\ now' = now + window_size \div 2
    /\ counters' = Restrict(counters, Alive(expiry, now'))
    /\ expiry' = Restrict(expiry, Alive(expiry, now'))
    /\ req' = [t \in Tasks |-> IF InFlight(t) THEN [req[t] EXCEPT !.waited = TRUE] ELSE req[t]]
    /\ UNCHANGED <<storeUp, redis_client, violations, issued, sent, arrivals, outages, urlVars, idVars, stVars, dbVars, histVars, authVars>>

StoreDown ==
    /\ NoResponsePending
    /\ storeUp
    /\ outages < MaxFailures
    /\ storeUp' = FALSE
    /\ outages' = outages + 1
    /\ UNCHANGED <<now, redis_client, counters, expiry, violations, req, issued, sent,
                   arrivals, urlVars, idVars, stVars, dbVars, histVars, authVars>>

StoreBack ==
    /\ NoResponsePending
    /\ ~storeUp
    /\ storeUp' = TRUE
    /\ UNCHANGED <<now, redis_client, counters, expiry, violations, req, issued, sent,
                   arrivals, outages, urlVars, idVars, stVars, dbVars, histVars, authVars>>

----------------------------------------------------------------------------
(* RateLimitMiddleware.get_rate_limit_status *)

\* a read that also counts itself
MGETCounting(cs, ex, keys) ==
    [counters |-> BumpAll(cs, keys), expiry |-> ex,
     values |-> [i \in 1..Len(keys) |->
                   IF keys[i] \in DOMAIN cs THEN <<cs[keys[i]]>> ELSE <<>>]]

\* MGET keys: the store after the command, and one value per key, <<>> (nil)
\* for a key that does not exist
MGET(cs, ex, keys) ==
    [counters |-> cs, expiry |-> ex,
     values |-> [i \in 1..Len(keys) |->
                   IF keys[i] \in DOMAIN cs THEN <<cs[keys[i]]>> ELSE <<>>]]

\* lines 154-156: the IP's key, and the user's key when there is a user
StatusKeys(ip, user_id, window_start) ==
    <<Key("ip", ip, window_start)>> \o
    (IF UserTruthy(user_id) THEN <<Key("user", <<ToString(user_id[1])>>, window_start)>>
     ELSE <<>>)

\* lines 148 and 170: the reply without figures
Unchecked(limit) == [kind |-> "unchecked", available |-> TRUE, limit |-> limit]

\* lines 160-168
StatusOf(values, limit, window_start) ==
    LET max_count == Max({IF values[i] = <<>> THEN 0 ELSE values[i][1] :
                            i \in 1..Len(values)})
    IN  [kind |-> "checked", limit |-> limit, used |-> max_count,
         remaining |-> Max({0, limit - max_count}),
         reset_time |-> window_start + window_size,
         available |-> max_count < limit]

\* get_rate_limit_status(ip, user_id, route) in process p, the store answering
\* or not
get_rate_limit_status(p, ip, user_id, route) ==
    /\ NoResponsePending
    /\ status_reply = NoReply
    /\ LET ws    == WindowStart(now)
           limit == LimitOf(route)
           read  == MGET(counters, expiry, StatusKeys(ip, user_id, ws))
       IN  IF ~redis_client[p]
           THEN /\ status_reply' = Unchecked(default_limit)
                /\ UNCHANGED <<counters, expiry>>
           ELSE IF storeUp
           THEN /\ status_reply' = StatusOf(read.values, limit, ws)
                /\ counters' = read.counters
                /\ expiry' = read.expiry
           ELSE /\ status_reply' = Unchecked(limit)
                /\ UNCHANGED <<counters, expiry>>
    /\ asked' = <<ip, user_id, route>>
    /\ UNCHANGED <<now, storeUp, redis_client, violations, req, issued, sent,
                   arrivals, outages, urlVars, idVars, dbVars, earlier, authVars>>

\* the caller takes the reply
StatusReturn ==
    /\ status_reply # NoReply
    /\ status_reply' = NoReply
    /\ asked' = <<>>
    /\ UNCHANGED <<rlVars, urlVars, idVars, dbVars, earlier, authVars>>

\* the identities and routes the status is asked for
StatusQueries ==
    { <<<<AddrA>>, <<>>, "/auth/login">>, <<<<AddrB>>, <<7>>, "/auth/login">>,
      <<<<AddrA>>, <<7>>, "/health">> }

\* Status queries between the requests of one client, the store coming and going
StatusNext ==
    \/ status_reply = NoReply /\ Arrive(1, Direct, <<>>, "/auth/login", CleanPayload)
    \/ status_reply = NoReply /\ Arrive(1, Edge, <<7>>, "/auth/login", CleanPayload)
    \/ Respond(1)
    \/ status_reply = NoReply /\ Execute(1)
    \/ status_reply = NoReply /\ \E applied \in BOOLEAN : ExecuteFail(1, applied)
    \/ status_reply = NoReply /\ Lpush(1)
    \/ status_reply = NoReply /\ Ltrim(1)
    \/ status_reply = NoReply /\ LogFail(1)
    \/ status_reply = NoReply /\ Tick
    \/ status_reply = NoReply /\ StoreDown
    \/ status_reply = NoReply /\ StoreBack
    \/ \E p \in Procs, q \in StatusQueries : get_rate_limit_status(p, q[1], q[2], q[3])
    \/ StatusReturn

SpecStatus == RLInit /\ [][StatusNext]_vars

\* The store stays reachable: two requests at a time, in two server processes
ReachableNext ==
    \/ \E t \in Tasks, r \in RLRequests : Arrive(t, r[1], r[2], r[3], CleanPayload)
    \/ \E t \in Tasks : Respond(t)
    \/ \E t \in Tasks : Execute(t)
    \/ \E t \in Tasks : Lpush(t)
    \/ \E t \in Tasks : Ltrim(t)
    \/ Tick

SpecReachable == RLInit /\ [][ReachableNext]_vars

\* The store comes and goes under the requests of one server process
OutageNext ==
    \/ \E r \in RLRequests : Arrive(1, r[1], r[2], r[3], CleanPayload)
    \/ Respond(1)
    \/ Execute(1)
    \/ \E applied \in BOOLEAN : ExecuteFail(1, applied)
    \/ Lpush(1)
    \/ Ltrim(1)
    \/ LogFail(1)
    \/ Tick
    \/ StoreDown
    \/ StoreBack

Spec == RLInit /\ [][OutageNext]_vars

\* The state process 1 reaches from a fresh start by serving n requests of
\* user 7 behind the proxy to /vehicles at second 60, all allowed
ServedUser(n) ==
    LET r1 == [Idle EXCEPT !.ip = <<AddrA>>, !.user = <<7>>, !.route = "/vehicles",
                           !.ws = window_size, !.limit = VehiclesLimit]
        k1 == RateKeys(r1.ip, r1.user, r1.route, r1.ws)
        c1 == CountedIn(r1)
        I  == 1..Len(k1)
    IN  /\ now = window_size
        /\ storeUp = TRUE
        /\ redis_client = [p \in Procs |-> p = 1]
        /\ counters = [k \in {k1[i] : i \in I} |-> n]
        /\ expiry = [k \in {k1[i] : i \in I} |-> window_size + window_size + ExpireBuffer]
        /\ violations = <<>>
        /\ req = [t \in Tasks |-> Idle]
        /\ issued = [k \in {c1[i] : i \in I} |-> n]
        /\ sent = (Identity(r1) :> n)
        /\ arrivals = 0
        /\ outages = 0

\* user 7 on /opportunities from another address, the same address without
\* a user, and user 7 on /vehicles again
MonotoneRequests ==
    { <<Edge, <<7>>, "/opportunities">>, <<Edge, <<>>, "/opportunities">>,
      <<Forwarded, <<7>>, "/vehicles">> }

MonotoneInit == (\E n \in (VehiclesLimit - 2)..VehiclesLimit : ServedUser(n)) /\ UrlIdle

\* Requests within one window, the store reachable
MonotoneNext ==
    \/ \E t \in Tasks, r \in MonotoneRequests : Arrive(t, r[1], r[2], r[3], CleanPayload)
    \/ \E t \in Tasks : Respond(t)
    \/ \E t \in Tasks : Execute(t)
    \/ \E t \in Tasks : Lpush(t)
    \/ \E t \in Tasks : Ltrim(t)

SpecMonotone == MonotoneInit /\ [][MonotoneNext]_vars

\* The violation log is full: process 1 has logged KeepLast + 1 denials in the
\* window before, and the client has used up its limit in this one
FullLogInit == ServedAfter(KeepLast + 1, LoginLimit) /\ UrlIdle

SpecLog == FullLogInit /\ [][ReachableNext]_vars

----------------------------------------------------------------------------
(* The whole chain: requests that SecurityMiddleware or the handler may      *)
(* refuse, under one server process, the store reachable, the records of     *)
(* govdeals.com changing                                                     *)

WithQuery(url) == Payload([NoRequest EXCEPT !.query = << <<"url", url>> >>], "ok")

WithLength(tok) == Payload([NoRequest EXCEPT !.content_length = <<tok>>], "ok")

ChainPayloads ==
    { CleanPayload, Payload(NoRequest, "raises"),
      WithQuery(SafeUrl), WithQuery(FileUrl), WithQuery(EvilUrl),
      WithLength("10485761"), WithLength("abc") }

ChainRequests ==
    { <<Direct, <<>>, "/auth/login", payload>> : payload \in ChainPayloads } \cup
    { <<Edge, <<7>>, "/auth/login", payload>> : payload \in {CleanPayload, WithQuery(EvilUrl)} } \cup
    { <<Forwarded, <<7>>, "/health", payload>> : payload \in {CleanPayload, WithQuery(EvilUrl)} }

ChainAnswers == { Answer(<<Public4>>), Answer(<<Loopback4>>), Failure("gaierror") }

ChainNext ==
    \/ \E r \in ChainRequests : Arrive(1, r[1], r[2], r[3], r[4])
    \/ Respond(1)
    \/ Execute(1)
    \/ Lpush(1)
    \/ Ltrim(1)
    \/ \E answer \in ChainAnswers : Rebind(<<"govdeals.com">>, answer)

SpecChain == RLInit /\ [][ChainNext]_vars

----------------------------------------------------------------------------
(* Claims about the rate limiter *)

\* the store answered the batch of request r, whose response is being written
Answered(t) == req[t].pc = "done" /\ req[t].results # <<>>

\* every counter of r counts r's client, user and route alone: as many
\* requests were ever counted there as the store has applied for them up to r
Alone(r) ==
    \A i \in 1..Len(CountedIn(r)) : Count(issued, CountedIn(r)[i]) = r.seq

\* C1 as stated: with the store reachable, each of the first `limit` requests of
\* a client and user to a route in one window is allowed, and the next one is
\* rejected with 429 and retry_after = window_size
C1_FirstLimitAllowed ==
    \A t \in Tasks :
        Answered(t) =>
            /\ req[t].seq <= req[t].limit => req[t].status = 200
            /\ req[t].seq = req[t].limit + 1 =>
                   req[t].status = 429 /\ req[t].retry_after = window_size

\* C1 amended: the request after the first `limit` ones is rejected with 429 and
\* retry_after = window_size; each of the first `limit` ones is allowed when
\* the counters it is counted in count no other request
C1_FirstLimitAllowedAlone ==
    \A t \in Tasks :
        Answered(t) =>
            /\ (req[t].seq <= req[t].limit /\ Alone(req[t])) => req[t].status = 200
            /\ req[t].seq = req[t].limit + 1 =>
                   req[t].status = 429 /\ req[t].retry_after = window_size

\* C1 witness: a request counted alone was allowed as the limit-th, or rejected
\* as the one after it
C1_Witness ==
    \E t \in Tasks :
        /\ Answered(t)
        /\ Alone(req[t])
        /\ req[t].seq = req[t].limit + 1
        /\ req[t].status = 429

C1_WitnessAllowed ==
    \E t \in Tasks :
        /\ Answered(t)
        /\ Alone(req[t])
        /\ req[t].seq = req[t].limit
        /\ req[t].status = 200

\* more than `limit` requests were counted in a counter of r's in an earlier window
EarlierExcess(r) ==
    \E i \in 1..Len(CountedIn(r)), k \in 0..(r.ws \div window_size - 1) :
        Count(issued, <<CountedIn(r)[i][1], CountedIn(r)[i][2], k * window_size>>) > r.limit

\* C8 as stated: after a window in which a limit was exceeded, the first `limit`
\* requests of a client and user to the route in a later window are allowed
C8_NextWindowAllowed ==
    \A t \in Tasks :
        (Answered(t) /\ EarlierExcess(req[t]) /\ req[t].seq <= req[t].limit)
            => req[t].status = 200

\* C8 amended: after a window in which a limit was exceeded, each of the first
\* `limit` requests of a client and user to the route in a later window is
\* allowed when the later window's counters count no other request: what
\* earlier windows counted has no effect
C8_NextWindowAllowedAlone ==
    \A t \in Tasks :
        (Answered(t) /\ EarlierExcess(req[t]) /\ req[t].seq <= req[t].limit
           /\ Alone(req[t]))
            => req[t].status = 200

\* C8 witness: a request is allowed while a counter of an earlier window, over
\* the limit, is still in the store
C8_Witness ==
    \E t \in Tasks :
        /\ Answered(t)
        /\ Alone(req[t])
        /\ req[t].status = 200
        /\ \E i \in 1..Len(req[t].keys) :
              LET c == CountedIn(req[t])[i]
                  k == Key(c[1], c[2], req[t].ws - window_size)
              IN  k \in DOMAIN counters /\ counters[k] > req[t].limit

\* no batch that counts in c is still on its way to the store
Settled(c) ==
    \A t \in Tasks :
        req[t].pc = "exec" => \A i \in 1..Len(CountedIn(req[t])) : CountedIn(req[t])[i] # c

\* C9: with the store reachable, once the batches of the current window have
\* been applied, every counter of the window (per route, per IP, per user)
\* equals the number of requests counted in it, however they interleaved
C9_NoLostUpdates ==
    \A c \in DOMAIN issued :
        (c[3] = WindowStart(now) /\ Settled(c))
            => Count(counters, Key(c[1], c[2], c[3])) = issued[c]

\* C9 witness: two requests of different clients to one route were in flight
\* together, both batches are applied, and the route's counter holds them all
C9_Witness ==
    \E t1, t2 \in Tasks :
        /\ t1 # t2
        /\ req[t1].pc \in {"lpush", "ltrim", "done"}
        /\ req[t2].pc \in {"lpush", "ltrim", "done"}
        /\ req[t1].route = req[t2].route
        /\ req[t1].ip # req[t2].ip
        /\ req[t1].ws = WindowStart(now) /\ req[t2].ws = WindowStart(now)
        /\ Settled(<<"route", <<req[t1].route>>, req[t1].ws>>)
        /\ counters[Key("route", <<req[t1].route>>, req[t1].ws)]
              = issued[<<"route", <<req[t1].route>>, req[t1].ws>>]

\* C2: a request that met an unreachable store, at the ping or at the batch, is
\* passed to the next handler; the middleware ends in no other way
C2_FailOpen ==
    \A t \in Tasks :
        (req[t].pc = "done" /\ req[t].error \in {"ping", "batch"}) => req[t].status = 200

\* C2 witness: one request passed after a failed ping, or after a failed batch
C2_Witness ==
    \E t \in Tasks : req[t].pc = "done" /\ req[t].error = "batch" /\ req[t].status = 200

C2_WitnessPing ==
    \E t \in Tasks : req[t].pc = "done" /\ req[t].error = "ping" /\ req[t].status = 200

----------------------------------------------------------------------------
(* The URL guard under changing DNS records and allow-list *)

GuardInit == ServedRL(FALSE, 0) /\ UrlIdle

GuardNext ==
    \/ Validate
    \/ Dispatch
    \/ Return
    \/ \E domain \in AddableDomains : add_allowed_domain(domain)
    \/ \E hostname \in ResolvedHosts :
          \E answer \in AnswersFor(hostname) : Rebind(hostname, answer)

SpecGuard == GuardInit /\ [][GuardNext]_vars

\* The same URLs judged again and again while the records change
RebindUrls ==
    { SafeUrl, InternalUrl, EvilUrl,
      <<"http", ":", "//", "GovDeals.com", ":", "80", "/", "passwd">> }

\* is_safe(url) for one of these URLs
ValidateAgain ==
    /\ call = NoCall
    /\ \E url \in RebindUrls :
          call' = [NoCall EXCEPT !.op = "is_safe", !.url = url,
                                 !.safe = _is_safe_url(url, ALLOWED_DOMAINS, dns)]
    /\ UNCHANGED <<ALLOWED_DOMAINS, dns, rlVars, idVars, stVars, dbVars, histVars, authVars>>

\* the call returns its verdict to the caller; the history keeps it
ReturnKept ==
    /\ call # NoCall
    /\ earlier' = call
    /\ call' = NoCall
    /\ UNCHANGED <<ALLOWED_DOMAINS, dns, rlVars, idVars, stVars, dbVars, asked, authVars>>

RebindNext ==
    \/ ValidateAgain
    \/ ReturnKept
    \/ \E domain \in AddableDomains : add_allowed_domain(domain)
    \/ \E hostname \in ResolvedHosts :
          \E answer \in AnswersFor(hostname) : Rebind(hostname, answer)

SpecRebind == GuardInit /\ [][RebindNext]_vars

----------------------------------------------------------------------------
(* extract_client_ip over the headers a request may carry *)

IdentityInit ==
    /\ ServedRL(FALSE, 0)
    /\ ALLOWED_DOMAINS = DEFAULT_DOMAINS
    /\ dns = [h \in ResolvedHosts |-> Answer(<<Public4>>)]
    /\ call = NoCall
    /\ \E request \in IdentityRequests :
          identity = [NoIdentity EXCEPT !.request = request]
    /\ OthersIdle

IdentityNext == Extract

SpecIdentity == IdentityInit /\ [][IdentityNext]_vars

----------------------------------------------------------------------------
(* Properties of the URL guard, checked under SpecGuard *)

\* the answer the resolver gives now for the host name of the URL under test
NowAnswered(url) == Resolve(dns, Hostname(url))

\* some address of the answer is private, loopback or link-local
SomePrivate(answer) ==
    answer.kind = "ok" /\ \E i \in 1..Len(answer.addrs) : IsPrivate(answer.addrs[i])

\* C3: is_safe is default-deny.  It returns true only for a URL that parses,
\* whose scheme is http or https and whose host name is in ALLOWED_DOMAINS
\* when the call is made; a file: URL, a URL with no host name and a URL on a
\* host outside the set are refused whatever the resolver answers.
C3_DefaultDeny ==
    call.op = "is_safe" =>
        /\ call.safe =>
              /\ ~ParseRaises(call.url)
              /\ Scheme(call.url) \in {<<"http">>, <<"https">>}
              /\ Hostname(call.url) # <<>>
              /\ Hostname(call.url) \in ALLOWED_DOMAINS
        /\ call.url \in {EvilUrl, FileUrl, <<"http", ":", "govdeals.com">>,
                         <<"http", ":", "//", "govdeals.com", "@", "evil.example">>}
              => ~call.safe

\* C3 witness: is_safe has returned true for a URL on a host that is in the
\* set only since add_allowed_domain put it there.
C3_Witness ==
    /\ call.op = "is_safe"
    /\ call.safe
    /\ Hostname(call.url) = <<"internal.example">>
    /\ <<"internal.example">> \notin DEFAULT_DOMAINS

\* C4: for an allow-listed host name, is_safe returns false whenever the name
\* resolves to an address in 10/8, 172.16/12, 192.168/16, 127/8, ::1,
\* fc00::/7 or fe80::/10.
C4_PrivateOverridesAllowList ==
    (/\ call.op = "is_safe"
     /\ Hostname(call.url) \in ALLOWED_DOMAINS
     /\ SomePrivate(NowAnswered(call.url)))
    => ~call.safe

\* C5: when an allow-listed host name resolves to several addresses, is_safe
\* returns false if one of them is private, loopback or link-local, wherever
\* it stands in the answer.
C5_AnyPrivateRejects ==
    \A i \in 1..2 :
        (/\ call.op = "is_safe"
         /\ Hostname(call.url) \in ALLOWED_DOMAINS
         /\ NowAnswered(call.url).kind = "ok"
         /\ Len(NowAnswered(call.url).addrs) = 2
         /\ IsPrivate(NowAnswered(call.url).addrs[i]))
        => ~call.safe

\* the URL candidates of a request: each value of a query parameter, and each
\* top-level string member of an object-shaped JSON body, whose name is one of
\* url, link, redirect, callback without regard to case
Candidates(request) ==
    {item[2] : item \in {q \in AllItems(request.query) : Lower(q[1]) \in URL_KEYS}}
    \cup
    IF IsJsonType(request.content_type) /\ request.body.kind = "object"
    THEN {item[2].value : item \in {m \in DictItems(request.body.members) :
                                        m[2].str /\ Lower(m[1]) \in URL_KEYS}}
    ELSE {}

\* the request is within the size limit of dispatch
WithinSize(request) ==
    \/ request.content_length = <<>>
    \/ /\ ParseInt(request.content_length[1]) >= 0
       /\ ParseInt(request.content_length[1]) <= max_request_size

\* the lookup of the URL's host name fails: the resolver raises, or the name
\* has no IPv4 address
LookupFails(url) ==
    Hostname(url) \in DOMAIN dns /\ gethostbyname(NowAnswered(url)).kind # "ok"

\* C6: the guard fails closed.  When the lookup of a candidate's host name
\* fails, or the URL does not parse, is_safe returns false, and a request that
\* carries such a candidate is not passed to the handler.
C6_FailsClosed ==
    /\ (call.op = "is_safe" /\ (LookupFails(call.url) \/ ParseRaises(call.url)))
       => ~call.safe
    /\ (/\ call.op = "dispatch"
        /\ \E url \in Candidates(call.request) :
              LookupFails(url) \/ ParseRaises(url))
       => ~call.outcome.reached

\* C7: a request that carries an unsafe URL candidate is answered 400 and is
\* not passed to the handler.
C7_UnsafeCandidateRejected ==
    (/\ call.op = "dispatch"
     /\ WithinSize(call.request)
     /\ \E url \in Candidates(call.request) :
           ~_is_safe_url(url, ALLOWED_DOMAINS, dns))
    => call.outcome.status = 400 /\ ~call.outcome.reached

\* C22: no gate lets a fault escape.  Whatever the request, a Content-Length
\* that is no number and a body that cannot be read included, dispatch of
\* SecurityMiddleware ends by passing the request on (200) or by a structured
\* rejection (400, 413); it raises nothing to the chain around it.
C22_NoFaultEscapes ==
    call.op = "dispatch" => call.outcome.status \in {200, 400, 413}

\* a request in which nothing but its JSON body could make dispatch raise
C22_BodyOnly ==
    /\ call.op = "dispatch"
    /\ call.request.content_length = <<>>
    /\ call.request.body.kind = "disconnect"
    /\ call.outcome.status = 500

\* the body is declared application/json and is no JSON text
MalformedBody(request) == IsJson(request.content_type) /\ request.body.kind = "invalid"

\* C23: malformed input is a policy violation.  A request whose application/json
\* body cannot be parsed, or that carries a URL candidate that cannot be
\* parsed, is answered by a structured 4xx response and is not passed to the
\* handler.
C23_MalformedRejected ==
    (/\ call.op = "dispatch"
     /\ WithinSize(call.request)
     /\ \/ MalformedBody(call.request)
        \/ \E url \in Candidates(call.request) : ParseRaises(url))
    => call.outcome.status \in {400, 413} /\ ~call.outcome.reached

\* a URL that cannot be parsed is refused by is_safe
C23_UnparsableUrlUnsafe ==
    (call.op = "is_safe" /\ ParseRaises(call.url)) => ~call.safe

\* a request with a malformed body and nothing else to refuse is passed on
C23_MalformedPassed ==
    /\ call.op = "dispatch"
    /\ MalformedBody(call.request)
    /\ call.request.query = <<>>
    /\ call.request.content_length = <<>>
    /\ call.outcome.reached

\* every address of the answer is a private one
PrivateOnly(answer) ==
    /\ answer.kind = "ok"
    /\ \A i \in 1..Len(answer.addrs) : IsPrivate(answer.addrs[i])

\* C27: verdicts are not reused.  Every call of is_safe resolves the host name
\* at the time of the call: when the host name of the URL now resolves to
\* private addresses only, the call returns false, also when the call before
\* it returned true for the same URL.
C27_VerdictsNotReused ==
    (/\ call.op = "is_safe"
     /\ Hostname(call.url) \in DOMAIN dns
     /\ PrivateOnly(dns[Hostname(call.url)]))
    => ~call.safe

\* C27 witness: the URL was judged safe by the call before, the records of its
\* allow-listed host were then changed to a private address, and this call
\* returns false
C27_Witness ==
    /\ call.op = "is_safe"
    /\ earlier.op = "is_safe"
    /\ earlier.url = call.url
    /\ earlier.safe
    /\ PrivateOnly(dns[Hostname(call.url)])
    /\ ~call.safe

\* the other way round: refused before, judged safe once the records are public
C27_WitnessBack ==
    /\ call.op = "is_safe"
    /\ earlier.op = "is_safe"
    /\ earlier.url = call.url
    /\ ~earlier.safe
    /\ call.safe

----------------------------------------------------------------------------
(* Properties of extract_client_ip, checked under SpecIdentity *)

\* the entry of a comma-separated list that follows its last comma
LastEntry(s) ==
    CHOOSE e \in {SubSeq(s, i, Len(s)) : i \in 1..(Len(s) + 1)} :
        /\ \A j \in 1..Len(e) : e[j] # ","
        /\ Len(e) = Len(s) \/ s[Len(s) - Len(e)] = ","

\* the preference order, for a given reading of "the request has this header"
Preferred(request, has(_)) ==
    LET h == request.headers
    IN  IF has("cf-connecting-ip") THEN strip(h["cf-connecting-ip"])
        ELSE IF has("true-client-ip") THEN strip(h["true-client-ip"])
        ELSE IF has("x-real-ip") THEN strip(h["x-real-ip"])
        ELSE IF has("x-forwarded-for") THEN strip(LastEntry(h["x-forwarded-for"]))
        ELSE IF request.client # <<>> THEN request.client[1]
        ELSE <<"unknown">>

\* C10 as stated: the first header that is present decides.
C10_FirstPresent ==
    identity.called =>
        LET present(name) == name \in DOMAIN identity.request.headers
        IN  identity.ip = Preferred(identity.request, present)

\* C10: the result is the trimmed value of the first edge header
\* (cf-connecting-ip, true-client-ip, x-real-ip) that is present with a
\* non-empty value; else the trimmed last entry of a non-empty
\* x-forwarded-for; else the peer address; else "unknown".
C10_FirstNonEmpty ==
    identity.called =>
        LET filled(name) == /\ name \in DOMAIN identity.request.headers
                            /\ Len(identity.request.headers[name]) > 0
        IN  identity.ip = Preferred(identity.request, filled)

\* C10 witness: an edge header and x-forwarded-for are both there with
\* different addresses, and the edge header's address is returned.
C10_Witness ==
    /\ identity.called
    /\ DOMAIN identity.request.headers = {"x-real-ip", "x-forwarded-for"}
    /\ identity.request.headers["x-real-ip"] = <<" ", "198.51.100.9", "\t">>
    /\ identity.request.headers["x-forwarded-for"] = <<"203.0.113.7", ",", " ", "192.0.2.44">>
    /\ identity.ip = <<"198.51.100.9">>

\* C25: the network address is always populated.  For every combination of
\* headers, blank edge headers and an x-forwarded-for with an empty last entry
\* included, and every peer address, extract_client_ip returns a string that
\* is not empty.
C25_AlwaysPopulated == identity.called => identity.ip # <<>>

\* only x-forwarded-for is there, its last entry empty, and the peer is known
C25_EmptyLastEntry ==
    /\ identity.called
    /\ DOMAIN identity.request.headers = {"x-forwarded-for"}
    /\ identity.request.headers["x-forwarded-for"] = <<"192.0.2.44", ",">>
    /\ identity.request.client # <<>>
    /\ identity.ip = <<>>

\* with no header, or headers whose values are all "", the peer address or
\* "unknown" is returned
C25_FallsBack ==
    (/\ identity.called
     /\ \A name \in DOMAIN identity.request.headers : identity.request.headers[name] = <<>>)
    => identity.ip = IF identity.request.client # <<>> THEN identity.request.client[1]
                     ELSE <<"unknown">>

----------------------------------------------------------------------------
(* Properties of the whole chain, checked under SpecChain *)

\* a response is leaving the chain
Leaving(t) == req[t].pc = "done"

\* the dimension of the first count of the reply that exceeds the limit
DeniedBy(r) == DimensionAt(r, Min(Exceeding(r.results, r.limit)))

\* C11: every response that leaves the chain carries every security header,
\* the handler's responses and the 429, 400 and 413 rejections alike, and
\* every 429 carries Retry-After equal to the window length.
C11_HeadersOnEveryResponse ==
    \A t \in Tasks :
        Leaving(t) =>
            /\ SECURITY_HEADERS \subseteq req[t].response.headers
            /\ req[t].response.status = 429 =>
                  <<"Retry-After", ToString(window_size)>> \in req[t].response.headers

\* rate-limited requests that differ in client, user, route, counts and limit
OtherDenials ==
    { [Idle EXCEPT !.ip = <<ip>>, !.user = user, !.route = route, !.count = count,
                   !.limit = LimitOf(route)] :
        ip \in {AddrA, AddrB}, user \in {<<>>, <<7>>},
        route \in {"/auth/login", "/health"}, count \in {LoginLimit + 1, default_limit + 1} }

\* resolvers under which the lookup of govdeals.com succeeds, hits a loopback
\* address, or fails
OtherResolvers ==
    { [h \in ResolvedHosts |-> IF h = <<"govdeals.com">> THEN a ELSE Answer(<<Public4>>)] :
        a \in ChainAnswers }

C12_WitnessResolution ==
    \E t \in Tasks :
        /\ Leaving(t)
        /\ req[t].response.status = 400
        /\ req[t].payload = WithQuery(SafeUrl)
        /\ FailingStep(SafeUrl, ALLOWED_DOMAINS, dns) = "resolution"

\* C19: the URL guard runs before the counter check, so a request that is
\* answered 400 for an unsafe URL has incremented no counter.
C19_GuardBeforeCounters ==
    \A t \in Tasks :
        Leaving(t) /\ req[t].response.status = 400 =>
            /\ req[t].results = <<>>
            /\ req[t].seq = 0

\* the limit that line 110 compares the count at position i with
AppliedLimit(r, i) == r.limit

\* the identity counted at position i of the batch's reply
CountedAt(r, i) == Dimensions(r.ip, r.user, r.route)[(i + 1) \div 2]

\* the request of task t has the reply of its batch
Counted(t) == req[t].results # <<>> /\ req[t].error = "none"

\* C17: each dimension is checked against its own limit.  The count of the
\* route is compared with the limit of the route, its policy or the default;
\* and two requests that count the same IP address, or the same user, have
\* their counts of it compared with the same limit, whatever their routes.
C17_OwnLimitPerDimension ==
    \A t1, t2 \in Tasks :
        Counted(t1) /\ Counted(t2) =>
            /\ \A i \in CheckedPositions(req[t1].results) :
                  DimensionAt(req[t1], i) = "route" =>
                      AppliedLimit(req[t1], i) = LimitOf(req[t1].route)
            /\ \A i \in CheckedPositions(req[t1].results),
                  j \in CheckedPositions(req[t2].results) :
                  ( /\ CountedAt(req[t1], i) = CountedAt(req[t2], j)
                    /\ DimensionAt(req[t1], i) \in {"ip", "user"} ) =>
                      AppliedLimit(req[t1], i) = AppliedLimit(req[t2], j)

\* the count of the route is compared with the limit of the route
C17_RouteLimit ==
    \A t \in Tasks :
        Counted(t) =>
            \A i \in CheckedPositions(req[t].results) :
                DimensionAt(req[t], i) = "route" =>
                    AppliedLimit(req[t], i) = LimitOf(req[t].route)

\* the request of task t is denied: it is logged, or answered 429
Denied(t) == req[t].pc \in {"lpush", "ltrim"} \/ (req[t].pc = "done" /\ req[t].status = 429)

\* the positions of the reply whose count exceeds the limit compared with it
Over(r) == {i \in CheckedPositions(r.results) : r.results[i] > AppliedLimit(r, i)}

\* C18: once the batch has answered, the request is denied if and only if one
\* of its counts exceeds the limit compared with it; and the violation record
\* written for a denial names the first exceeding dimension in the order IP,
\* route, user, with the count of that dimension.
C18_DenyAndFirstDimension ==
    \A t \in Tasks :
        Counted(t) =>
            /\ Denied(t) <=> Over(req[t]) # {}
            /\ req[t].pc = "ltrim" =>
                  /\ violations[1].count = req[t].results[Min(Over(req[t]))]
                  /\ "dimension" \in DOMAIN violations[1]
                  /\ violations[1].dimension = DimensionAt(req[t], Min(Over(req[t])))

\* the request is denied if and only if a count exceeds the limit compared with
\* it, and the record holds the count of the first exceeding position
C18_DenyAndFirstCount ==
    \A t \in Tasks :
        Counted(t) =>
            /\ Denied(t) <=> Over(req[t]) # {}
            /\ req[t].pc = "ltrim" =>
                  violations[1].count = req[t].results[Min(Over(req[t]))]

\* a denial in which the IP count and the route count both exceed
C18_SeveralExceed ==
    \E t \in Tasks :
        /\ Counted(t)
        /\ req[t].pc = "ltrim"
        /\ Cardinality(Over(req[t])) >= 2

\* C20: a fail-open allow touches no counter.  The step in which a request is
\* let through because the store could not be reached or did not answer in
\* time leaves the value and the expiry of every counter key as they were.
C20_FailOpenTouchesNothing ==
    [][(\E t \in Tasks : /\ req[t].pc # "done"
                         /\ req'[t].pc = "done"
                         /\ req'[t].status = 200
                         /\ req'[t].error # "none")
          => UNCHANGED <<counters, expiry>>]_vars

\* a fail-open allow on the ping leaves the counters as they were
C20_PingTouchesNothing ==
    [][(\E t \in Tasks : /\ req[t].pc # "done"
                         /\ req'[t].pc = "done"
                         /\ req'[t].status = 200
                         /\ req'[t].error \notin {"none", "batch"})
          => UNCHANGED <<counters, expiry>>]_vars

\* C21: logging a violation is best-effort.  A request whose batch was
\* answered with a count above the limit is answered 429, also when the append
\* to the violation log, or its trim, failed; such a failure never lets the
\* request through.
C21_LogFailureStillDenies ==
    \A t \in Tasks :
        req[t].pc = "done" =>
            /\ (req[t].results # <<>> /\ Over(req[t]) # {}) =>
                  req[t].status = 429 /\ req[t].response.status = 429
            /\ req[t].error = "log" =>
                  req[t].status = 429 /\ req[t].response.status = 429

\* C21 witness: a request is answered 429 after the append to the log failed,
\* nothing having been appended for it
C21_Witness ==
    \E t \in Tasks :
        /\ req[t].pc = "done"
        /\ req[t].error = "log"
        /\ req[t].status = 429
        /\ Over(req[t]) # {}
        /\ \A k \in 1..Len(violations) : violations[k].timestamp # now

\* C24: every fail-open allow is observable.  A request that is let through
\* because the store could not be reached or did not answer, at the ping of
\* the first connection or at the batch, has emitted a record of it.
C24_FailOpenLogged ==
    \A t \in Tasks :
        (req[t].pc = "done" /\ req[t].status = 200 /\ req[t].error # "none") =>
            req[t].printed

\* a fail-open allow at the batch has printed its line
C24_BatchFailureLogged ==
    \A t \in Tasks :
        (req[t].pc = "done" /\ req[t].status = 200 /\ req[t].error = "batch") =>
            req[t].printed

\* the records of the log stand newest first
NewestFirst ==
    \A k \in 1..(Len(violations) - 1) :
        violations[k].timestamp >= violations[k + 1].timestamp

\* C26: the violation log is a bounded buffer with oldest-first eviction.  In
\* every reachable state, also while several denials are being logged at
\* once, it holds at most 1000 records, and they are the most recent ones,
\* newest first.
C26_BoundedLog == Len(violations) <= KeepLast + 1 /\ NewestFirst

\* two denials are between their append and their trim, the log two over
C26_TwoOver ==
    /\ \A t \in Tasks : req[t].pc = "ltrim"
    /\ Len(violations) = KeepLast + 3

\* once no denial is between its append and its trim, the log holds at most
\* 1000 records, newest first
C26_BoundedAtRest ==
    (\A t \in Tasks : req[t].pc # "ltrim") =>
        Len(violations) <= KeepLast + 1 /\ NewestFirst

\* the log holds a denial of this address on this route in this window
DeniedEarlier(ip, route, ws) ==
    \E k \in 1..Len(violations) :
        /\ violations[k].ip = ip
        /\ violations[k].route = route
        /\ WindowStart(violations[k].timestamp) = ws

\* the log holds a denial of this address and user on this route in this window
DeniedEarlierAs(ip, user_id, route, ws) ==
    \E k \in 1..Len(violations) :
        /\ violations[k].ip = ip
        /\ violations[k].user_id = user_id
        /\ violations[k].route = route
        /\ WindowStart(violations[k].timestamp) = ws

\* the step is the batch of task t, and it adds one to each of its counters
Increments(t) ==
    \A i \in 1..Len(req[t].keys) :
        Count(counters', req[t].keys[i]) = Count(counters, req[t].keys[i]) + 1

\* C28 as stated: once a request of an address to a route was denied in a
\* window, every later request of that address to that route in the window
\* is denied, and it still adds one to each of its counters.
C28_DenialMonotoneByAddress ==
    [][\A t \in Tasks :
          (/\ req[t].pc = "exec"
           /\ req'[t].pc # "exec"
           /\ DeniedEarlier(req[t].ip, req[t].route, req[t].ws))
          => req'[t].pc = "lpush" /\ Increments(t)]_vars

\* C28: once a request of an address and user to a route was denied in a
\* window, every later request of the same address and the same user (or of
\* none, if the denied one had none) to that route in the window is denied,
\* and it still adds one to each of its counters.
C28_DenialMonotone ==
    [][\A t \in Tasks :
          (/\ req[t].pc = "exec"
           /\ req'[t].pc # "exec"
           /\ DeniedEarlierAs(req[t].ip, req[t].user, req[t].route, req[t].ws))
          => req'[t].pc = "lpush" /\ Increments(t)]_vars

\* C28 witness: a request is denied after a denial of the same address and
\* user on the same route was logged in the window, its counters one higher
\* than those of the denial
C28_Witness ==
    \E t \in Tasks :
        /\ req[t].pc = "lpush"
        /\ DeniedEarlierAs(req[t].ip, req[t].user, req[t].route, req[t].ws)
        /\ \E i \in CheckedPositions(req[t].results) :
              req[t].results[i] = violations[1].count + 1

----------------------------------------------------------------------------
(* Properties of the status query, checked under SpecStatus *)

\* C13: get_rate_limit_status has no side effect.  The step in which it
\* returns, with figures or without because the store failed or was never
\* connected, leaves every counter, every expiry and the violation log as
\* they were, so the admit decisions that follow are those of the run without
\* the query.
C13_StatusChangesNothing ==
    [][(status_reply = NoReply /\ status_reply' # NoReply)
          => UNCHANGED <<counters, expiry, violations, redis_client, issued, sent>>]_vars

\* C13 witness: a status query has returned the figures of a client whose
\* counter exists in the store.
C13_Witness ==
    /\ status_reply # NoReply
    /\ status_reply.kind = "checked"
    /\ status_reply.used > 0
    /\ status_reply.used = counters[Key("ip", <<AddrA>>, WindowStart(now))]

\* a status query has returned without figures, the store being unreachable
C13_WitnessStoreDown ==
    /\ status_reply # NoReply
    /\ status_reply.kind = "unchecked"
    /\ redis_client[1]
    /\ ~storeUp

\* the positions that exceed in the batch of the next request of the identity
\* and route the status was asked for, nothing having happened in between
NextOver ==
    LET out == PipelineExecute(counters, expiry,
                   RateKeys(asked[1], asked[2], asked[3], WindowStart(now)), now)
    IN  Exceeding(out.results, LimitOf(asked[3]))

\* a status query has returned figures read from the store
StatusChecked == status_reply # NoReply /\ status_reply.kind = "checked"

\* C29: the status query agrees with admission.  When the query reports
\* available (which is the same as remaining > 0), the next request of the
\* same ip and user to the same route, nothing intervening, is allowed; when
\* it reports not available, that request is denied.
C29_StatusAgreesWithAdmission ==
    StatusChecked =>
        /\ status_reply.available <=> status_reply.remaining > 0
        /\ status_reply.available => NextOver = {}
        /\ ~status_reply.available => NextOver # {}

\* the half of C29 that the code keeps: not available means denied, and
\* available is the same as remaining > 0
C29_UnavailableDenied ==
    StatusChecked =>
        /\ status_reply.available <=> status_reply.remaining > 0
        /\ ~status_reply.available => NextOver # {}

\* the status reports available for a client whose next request is denied
\* by the route's counter alone
C29_RouteUnseen ==
    /\ StatusChecked
    /\ status_reply.available
    /\ status_reply.remaining > 0
    /\ NextOver = {3}

----------------------------------------------------------------------------
(* utils/store.py.  A listing is the record of its fields, None being the    *)
(* value NULL.  Of the eleven required fields, listing_url, make and         *)
(* current_bid are followed: _validate_listing and the statement treat the   *)
(* eight others as they treat make, and they are present throughout.  A row  *)
(* is the listing it holds; its id plays no part in what the statement does. *)

NULL == "None"

Listing(listing_url, make, current_bid, vin) ==
    [listing_url |-> listing_url, make |-> make, current_bid |-> current_bid, vin |-> vin]

\* _validate_listing, the fields it requires
required == {"listing_url", "make", "current_bid"}

\* _validate_listing: TRUE when it returns, FALSE when it raises ValueError
ValidAlways(listing) == TRUE

_validate_listing(listing) == \A key \in required : listing[key] \notin {NULL, ""}

\* the statement under INSERT OR IGNORE: a conflict on listing_url keeps the row
UpsertIgnore(rows, data) ==
    IF data.listing_url = NULL THEN [error |-> "IntegrityError", rows |-> rows]
    ELSE IF \E row \in rows : row.listing_url = data.listing_url
         THEN [error |-> "none", rows |-> rows]
    ELSE IF data.vin # NULL /\ \E row \in rows : row.vin = data.vin
         THEN [error |-> "IntegrityError", rows |-> rows]
    ELSE [error |-> "none", rows |-> rows \cup {data}]

\* conn.execute(sql, data): INSERT ... ON CONFLICT(listing_url) DO UPDATE SET
\* every other column, under listing_url NOT NULL UNIQUE and vin UNIQUE (any
\* number of rows may hold a NULL vin).  A statement that fails changes nothing.
Upsert(rows, data) ==
    LET others == {row \in rows : row.listing_url # data.listing_url}
    IN  IF data.listing_url = NULL THEN [error |-> "IntegrityError", rows |-> rows]
        ELSE IF data.vin # NULL /\ \E row \in others : row.vin = data.vin
             THEN [error |-> "IntegrityError", rows |-> rows]
        ELSE [error |-> "none", rows |-> others \cup {data}]

\* conn.rollback() that keeps what the transaction wrote
rollbackKeeps(committed, working) == working

\* conn.rollback(): the table is what was last committed
rollback(committed, working) == committed

\* db_connection around a body that ended with body.error, having brought the
\* rows of its transaction to body.rows: commit when the body returned and the
\* commit succeeds, else rollback and raise
db_connection(committed, body, commit_fails) ==
    IF body.error # "none"
    THEN [error |-> body.error, rows |-> rollback(committed, body.rows)]
    ELSE IF commit_fails
         THEN [error |-> "OperationalError", rows |-> rollback(committed, body.rows)]
    ELSE [error |-> "none", rows |-> body.rows]

RECURSIVE ExecuteAll(_, _, _, _)
\* the loop of batch_upsert_public_listings from the i-th listing on; the
\* database fails the fault-th statement, if there is one
ExecuteAll(working, listings, i, fault) ==
    IF i > Len(listings) THEN [error |-> "none", rows |-> working]
    ELSE IF ~_validate_listing(listings[i]) THEN [error |-> "ValueError", rows |-> working]
    ELSE IF fault = i THEN [error |-> "OperationalError", rows |-> working]
    ELSE LET done == Upsert(working, listings[i])
         IN  IF done.error # "none" THEN done
             ELSE ExecuteAll(done.rows, listings, i + 1, fault)

\* the history after a call that committed these listings
Recorded(history, listings) ==
    LET urls == {listings[i].listing_url : i \in DOMAIN listings}
        Last(u) == CHOOSE i \in DOMAIN listings :
                      /\ listings[i].listing_url = u
                      /\ \A j \in DOMAIN listings : listings[j].listing_url = u => j <= i
    IN  [u \in DOMAIN history \cup urls |->
            IF u \in urls THEN listings[Last(u)] ELSE history[u]]

\* upsert_public_listing.  fault: 0, the database answers; 1, it fails the
\* statement; 2, it fails the commit
upsert_public_listing(listing, fault) ==
    LET valid == _validate_listing(listing)
        body == IF fault = 1 THEN [error |-> "OperationalError", rows |-> table]
                ELSE Upsert(table, listing)
        done == IF valid THEN db_connection(table, body, fault = 2)
                ELSE [error |-> "ValueError", rows |-> table]
    IN  /\ table' = done.rows
        /\ dbcall' = [op |-> "upsert", listings |-> <<listing>>, fault |-> fault,
                      before |-> table, result |-> done.error, opened |-> valid]
        /\ latest' = IF done.error = "none" THEN Recorded(latest, <<listing>>) ELSE latest
        /\ UNCHANGED <<rlVars, urlVars, idVars, stVars, histVars, authVars>>

\* batch_upsert_public_listings.  fault: 0, the database answers; i up to the
\* length of the batch, it fails the i-th statement; one more, it fails the commit
batch_upsert_public_listings(listings, fault) ==
    LET body == ExecuteAll(table, listings, 1, fault)
        done == db_connection(table, body, fault = Len(listings) + 1)
    IN  /\ table' = done.rows
        /\ dbcall' = [op |-> "batch", listings |-> listings, fault |-> fault,
                      before |-> table, result |-> done.error, opened |-> TRUE]
        /\ latest' = IF done.error = "none" /\ listings # <<>>
                     THEN Recorded(latest, listings) ELSE latest
        /\ UNCHANGED <<rlVars, urlVars, idVars, stVars, histVars, authVars>>

\* the caller takes the outcome
DbReturn ==
    /\ dbcall # NoDbCall
    /\ dbcall' = NoDbCall
    /\ UNCHANGED <<rlVars, urlVars, idVars, stVars, table, latest, histVars, authVars>>

(* The listings explored *)

ListingUrls == {"https://govdeals.com/1", "https://govdeals.com/2"}

Vins == {NULL, "1FTFW1ET5DFC10312", "1GCHK23U33F123456"}

Bids == {"1000.0", "1500.0"}

ValidListings == {Listing(u, "Ford", b, v) : u \in ListingUrls, b \in Bids, v \in Vins}

InvalidListings ==
    { Listing(NULL, "Ford", "1000.0", NULL),
      Listing("https://govdeals.com/1", "", "1000.0", "1FTFW1ET5DFC10312"),
      Listing("https://govdeals.com/2", "Ford", NULL, NULL) }

Listings == ValidListings \cup InvalidListings

\* the listings of the batches explored
BatchListings ==
    {l \in ValidListings : l.current_bid = "1000.0" \/ l.vin = NULL}
        \cup {l \in InvalidListings : l.listing_url # NULL}

Batches == UNION {[1..n -> BatchListings] : n \in 0..MaxBatch}

StoreInit == ServedRL(FALSE, 0) /\ UrlIdle

StoreNext ==
    \/ dbcall = NoDbCall /\ \E listing \in Listings, fault \in 0..2 :
                                upsert_public_listing(listing, fault)
    \/ dbcall = NoDbCall /\ \E listings \in Batches :
                                \E fault \in 0..(Len(listings) + 1) :
                                    batch_upsert_public_listings(listings, fault)
    \/ DbReturn

SpecStore == StoreInit /\ [][StoreNext]_vars


----------------------------------------------------------------------------
(* Properties of utils/store.py, checked under SpecStore *)

\* a required field of the listing is None or empty
Incomplete(listing) == \E key \in required : listing[key] = NULL \/ listing[key] = ""

\* the listing carries the VIN of a row of `rows` that has another listing_url
TakenVin(rows, listing) ==
    /\ listing.vin # NULL
    /\ \E row \in rows : row.vin = listing.vin /\ row.listing_url # listing.listing_url

\* the errors of sqlite3 that the model raises
SqliteErrors == {"IntegrityError", "OperationalError"}

\* C14: batch_upsert_public_listings is all-or-nothing.  When every listing of
\* the batch is complete, no VIN of the batch belongs to a row or a listing
\* of another URL, and the database answers, the call returns and the table
\* holds every listing of the batch (for a URL given twice, its last listing),
\* its other rows untouched.  When a listing at any position is incomplete, or
\* carries the VIN of a row whose URL is not in the batch, or the database
\* fails, the call raises, and whenever it raises the table is exactly the
\* table before the call.
C14_BatchAllOrNothing ==
    dbcall.op = "batch" =>
        LET ls == dbcall.listings
            urls == {ls[i].listing_url : i \in DOMAIN ls}
            IsLast(i) == \A j \in DOMAIN ls : ls[j].listing_url = ls[i].listing_url => j <= i
            clean == /\ \A i \in DOMAIN ls : ~Incomplete(ls[i])
                     /\ \A i \in DOMAIN ls : ~TakenVin(dbcall.before, ls[i])
                     /\ \A i, j \in DOMAIN ls : ~TakenVin({ls[j]}, ls[i])
                     /\ dbcall.fault = 0
            failing == \/ \E i \in DOMAIN ls : Incomplete(ls[i])
                       \/ \E i \in DOMAIN ls :
                             TakenVin({row \in dbcall.before : row.listing_url \notin urls}, ls[i])
                       \/ dbcall.fault # 0
        IN  /\ clean => dbcall.result = "none"
            /\ dbcall.result = "none" =>
                  /\ \A i \in DOMAIN ls : IsLast(i) => ls[i] \in table
                  /\ \A row \in table : row.listing_url \notin urls => row \in dbcall.before
                  /\ \A row \in dbcall.before : row.listing_url \notin urls => row \in table
            /\ failing => dbcall.result # "none"
            /\ dbcall.result # "none" => table = dbcall.before

\* C14 witness: a batch of two whose first listing was executed, and would have
\* changed the table, before its second failed on a duplicate VIN
C14_Witness ==
    /\ dbcall.op = "batch"
    /\ Len(dbcall.listings) = 2
    /\ dbcall.result = "IntegrityError"
    /\ dbcall.listings[1] \notin dbcall.before
    /\ Upsert(dbcall.before, dbcall.listings[1]).error = "none"
    /\ dbcall.before # {}
    /\ table = dbcall.before

\* a batch of two that was committed
C14_WitnessCommitted ==
    /\ dbcall.op = "batch"
    /\ Len(dbcall.listings) = 2
    /\ dbcall.result = "none"
    /\ dbcall.listings[1].listing_url # dbcall.listings[2].listing_url
    /\ dbcall.before = {}

\* C15: the table holds exactly one row for each listing_url that a successful
\* upsert was given and no other row, and that row holds the field values of
\* the last successful upsert of that URL.
C15_OneRowPerUrl ==
    /\ \A r1, r2 \in table : r1.listing_url = r2.listing_url => r1 = r2
    /\ {row.listing_url : row \in table} = DOMAIN latest
    /\ \A u \in DOMAIN latest : latest[u] \in table

\* C15 witness: a successful upsert of a URL that had a row with other values;
\* the table has as many rows as before
C15_Witness ==
    /\ dbcall.op = "upsert"
    /\ dbcall.result = "none"
    /\ \E row \in dbcall.before :
          /\ row.listing_url = dbcall.listings[1].listing_url
          /\ row.current_bid # dbcall.listings[1].current_bid
          /\ row.vin # dbcall.listings[1].vin
    /\ Cardinality(table) = Cardinality(dbcall.before)
    /\ Cardinality(table) = 2

\* C16: an upsert_public_listing that raises leaves the table as it was.  An
\* incomplete listing raises ValueError and no connection is opened; a
\* complete listing that carries the VIN of a row of another URL, or that the
\* database fails, raises the error of sqlite3.
C16_FailedUpsertChangesNothing ==
    dbcall.op = "upsert" =>
        LET listing == dbcall.listings[1]
        IN  /\ dbcall.result # "none" => table = dbcall.before
            /\ Incomplete(listing) => dbcall.result = "ValueError" /\ ~dbcall.opened
            /\ (~Incomplete(listing) /\ TakenVin(dbcall.before, listing)) =>
                  dbcall.result \in SqliteErrors /\ dbcall.opened
            /\ (~Incomplete(listing) /\ ~TakenVin(dbcall.before, listing)
                  /\ dbcall.fault = 0) => dbcall.result = "none"
            /\ (~Incomplete(listing) /\ dbcall.fault # 0) => dbcall.result \in SqliteErrors

\* C16 witness: an upsert refused for the VIN of a row of another URL, its own
\* URL having a row that it would have changed
C16_Witness ==
    /\ dbcall.op = "upsert"
    /\ dbcall.result = "IntegrityError"
    /\ TakenVin(dbcall.before, dbcall.listings[1])
    /\ \E row \in dbcall.before :
          row.listing_url = dbcall.listings[1].listing_url /\ row # dbcall.listings[1]
    /\ table = dbcall.before

\* an upsert refused by validation, rows already in the table
C16_WitnessValueError ==
    /\ dbcall.op = "upsert"
    /\ dbcall.result = "ValueError"
    /\ ~dbcall.opened
    /\ table # {}

\* an upsert whose commit failed
C16_WitnessCommitFails ==
    /\ dbcall.op = "upsert"
    /\ dbcall.fault = 2
    /\ dbcall.result = "OperationalError"
    /\ Upsert(dbcall.before, dbcall.listings[1]).rows # dbcall.before

----------------------------------------------------------------------------
(* routers/auth.py, login.  One account is followed, the row of User that    *)
(* the known username finds.  Time is in minutes.  A call of login is one    *)
(* step: between the query of the row and the commit of its changes the      *)
(* handler does not await, and the server is one process with one event      *)
(* loop, so two calls do not interleave between the read and the write.      *)
(* locked_until is <<>> (None) or <<minute>>.                                *)

LockMinutes == 30
LockThreshold == 5
TickMinutes == 10       \* minutes in one step of the clock of login

\* the lock check removed
NotLocked(u, t) == FALSE

\* line 72: user.locked_until and user.locked_until > datetime.now(timezone.utc)
Locked(u, t) == u.locked_until # <<>> /\ u.locked_until[1] > t

\* lines 85-88: one more failed attempt, and the lock from the fifth on
FailedAttempt(u, t) ==
    LET n == u.failed_login_attempts + 1
    IN  [u EXCEPT !.failed_login_attempts = n,
                  !.locked_until = IF n >= LockThreshold THEN <<t + LockMinutes>> ELSE @]

\* lines 118-119
ResetAttempts(u) == [u EXCEPT !.failed_login_attempts = 0, !.locked_until = <<>>]

\* `if not login_data.totp_code`: None and "" are falsy
TotpCodes == {"none", "wrong", "right"}

\* login, lines 49-143: the reply and the account after the call
LoginOutcome(u, known, password, totp_code, t) ==
    IF ~known \/ ~u.is_active
    THEN [status |-> 401, detail |-> "Invalid credentials", tokens |-> FALSE, user |-> u]
    ELSE IF Locked(u, t)
    THEN [status |-> 423, detail |-> "Account is temporarily locked", tokens |-> FALSE,
          user |-> u]
    ELSE IF ~password
    THEN [status |-> 401, detail |-> "Invalid credentials", tokens |-> FALSE,
          user |-> FailedAttempt(u, t)]
    ELSE IF u.totp_enabled /\ totp_code = "none"
    THEN [status |-> 401, detail |-> "TOTP code required", tokens |-> FALSE, user |-> u]
    ELSE IF u.totp_enabled /\ totp_code # "right"
    THEN [status |-> 401, detail |-> "Invalid TOTP code", tokens |-> FALSE, user |-> u]
    ELSE [status |-> 200, detail |-> "", tokens |-> TRUE, user |-> ResetAttempts(u)]

\* the password was checked and found wrong
WrongPassword(c) == c.status = 401 /\ c.known /\ c.before.is_active /\ ~c.password

\* POST /auth/login with a username that finds the account or not, the right
\* password or not, and a TOTP code
login(known, password, totp_code) ==
    /\ authcall = NoAuthCall
    /\ account.failed_login_attempts < MaxAttempts
    /\ LET out == LoginOutcome(account, known, password, totp_code, utcnow)
           c   == [op |-> "login", known |-> known, password |-> password,
                   totp_code |-> totp_code, at |-> utcnow, before |-> account,
                   status |-> out.status, detail |-> out.detail, tokens |-> out.tokens]
       IN  /\ authcall' = c
           /\ account' = out.user
           /\ streak' = IF out.status = 200 THEN 0
                        ELSE IF WrongPassword(c) THEN streak + 1
                        ELSE streak
    /\ UNCHANGED <<rlVars, urlVars, idVars, stVars, dbVars, histVars, utcnow>>

\* the client takes the reply
AuthReturn ==
    /\ authcall # NoAuthCall
    /\ authcall' = NoAuthCall
    /\ UNCHANGED <<rlVars, urlVars, idVars, stVars, dbVars, histVars, account, utcnow, streak>>

\* ten minutes pass
AuthTick ==
    /\ authcall = NoAuthCall
    /\ utcnow < MaxAuthTicks * TickMinutes
    /\ utcnow' = utcnow + TickMinutes
    /\ UNCHANGED <<rlVars, urlVars, idVars, stVars, dbVars, histVars, account, authcall, streak>>

\* the account as created, active or not, with TOTP or without
AuthInit ==
    /\ ServedRL(FALSE, 0)
    /\ ALLOWED_DOMAINS = DEFAULT_DOMAINS
    /\ dns = [h \in ResolvedHosts |-> Answer(<<Public4>>)]
    /\ call = NoCall
    /\ identity = NoIdentity
    /\ NonAuthIdle
    /\ \E active \in BOOLEAN, totp \in BOOLEAN :
          account = [NewUser EXCEPT !.is_active = active, !.totp_enabled = totp]
    /\ utcnow = 0
    /\ authcall = NoAuthCall
    /\ streak = 0

AuthNext ==
    \/ \E known \in BOOLEAN, password \in BOOLEAN, totp_code \in TotpCodes :
          login(known, password, totp_code)
    \/ AuthReturn
    \/ AuthTick

SpecAuth == AuthInit /\ [][AuthNext]_vars

----------------------------------------------------------------------------
(* Properties of login, checked under SpecAuth *)

\* the call of login that returns in this step
Returning == authcall = NoAuthCall /\ authcall' # NoAuthCall

\* C30: account lockout.  The fifth wrong password in a row on the account,
\* and every one after it, no login having succeeded in between, sets
\* locked_until 30 minutes ahead of the call.  While locked_until is in the
\* future every login to the account, the right password and TOTP code
\* included, is answered 423 without tokens and leaves failed_login_attempts
\* and locked_until as they were.  failed_login_attempts goes back to 0 and
\* locked_until to None in a successful login and in no other step.
C30_Lockout ==
    [][/\ (Returning /\ WrongPassword(authcall') /\ streak' >= 5)
            => account'.locked_until = <<authcall'.at + 30>>
       /\ (/\ Returning
           /\ authcall'.known
           /\ account.is_active
           /\ account.locked_until # <<>>
           /\ account.locked_until[1] > utcnow)
            => /\ authcall'.status = 423
               /\ ~authcall'.tokens
               /\ account'.failed_login_attempts = account.failed_login_attempts
               /\ account'.locked_until = account.locked_until
       /\ (Returning /\ authcall'.status = 200)
            => /\ authcall'.tokens
               /\ account'.failed_login_attempts = 0
               /\ account'.locked_until = <<>>
       /\ (\/ account'.failed_login_attempts < account.failed_login_attempts
           \/ account.locked_until # <<>> /\ account'.locked_until = <<>>)
            => Returning /\ authcall'.status = 200]_vars

\* C30 witness: a login with the right password and the right TOTP code to
\* the account locked by five wrong passwords is answered 423 without tokens,
\* and the account is as it was
C30_Witness ==
    /\ authcall.op = "login"
    /\ authcall.known /\ authcall.password /\ authcall.totp_code = "right"
    /\ authcall.before.totp_enabled
    /\ authcall.before.failed_login_attempts = 5
    /\ authcall.before.locked_until # <<>>
    /\ authcall.before.locked_until[1] > authcall.at
    /\ authcall.status = 423
    /\ ~authcall.tokens
    /\ account = authcall.before
    /\ streak = 5

\* the fifth wrong password in a row has just locked the account
C30_WitnessLocks ==
    /\ WrongPassword(authcall)
    /\ streak = 5
    /\ authcall.before.locked_until = <<>>
    /\ account.locked_until = <<authcall.at + 30>>

\* a successful login after the lock has run out clears it
C30_WitnessCleared ==
    /\ authcall.op = "login"
    /\ authcall.status = 200
    /\ authcall.before.locked_until # <<>>
    /\ account = ResetAttempts(authcall.before)

====
